---- MODULE Spec2Model ----
(***************************************************************************)
(* Model of src/server.js (lines 1-1305, the current server): the rooms of *)
(* the drawing game, their countdown intervals, their delayed callbacks    *)
(* and the socket handlers, together with the pure routines (masking,      *)
(* hints, guess evaluation) the handlers call.                             *)
(*                                                                         *)
(* Strings are sequences of one-character strings.  A JavaScript object    *)
(* reference to a player (room.currentDrawer, room.lastDrawer) is a record *)
(* [cid, gone, id, ident]: while the object is in room.players it is found *)
(* there by its clientId (unique in the list, see joinRoom); once it has   *)
(* been filtered out of the list the reference is marked gone and keeps    *)
(* the id the object had.                                                  *)
(***************************************************************************)
EXTENDS Integers, Sequences, FiniteSets, Bags, TLC

----------------------------------------------------------------------------
(* Bounds of the model *)

MaxSockets == 3
MaxClients == 2
MaxRooms == 1
MaxHandles == 3
MaxChat == 1
MaxMaskLen == 4
MinGuessLen == 6
MaxGuessLen == 7

(* Program constants *)

SelectTime == 15
CloseLen == 6
ChatLimit == 100
DefaultDrawTime == 80
DefaultRounds == 3
DefaultMaxPlayers == 8
MaxPlayersPerRoom == 50

----------------------------------------------------------------------------
(* Characters and strings *)

LowerLetters == {"a", "b", "d", "e", "g", "l", "o", "p", "r", "s", "t", "w", "y"}
UpperLetters == {"A", "B"}
Letters == LowerLetters \cup UpperLetters
Space == " "

\* String.prototype.toLowerCase, on the characters of the model
ToLowerChar(c) == CASE c = "A" -> "a" [] c = "B" -> "b" [] OTHER -> c

toLowerCase(s) == [i \in 1..Len(s) |-> ToLowerChar(s[i])]

RECURSIVE TrimLeft(_)
TrimLeft(s) == IF s # <<>> /\ Head(s) = Space THEN TrimLeft(Tail(s)) ELSE s

RECURSIVE TrimRight(_)
TrimRight(s) ==
  IF s # <<>> /\ s[Len(s)] = Space THEN TrimRight(SubSeq(s, 1, Len(s) - 1)) ELSE s

\* String.prototype.trim
trim(s) == TrimRight(TrimLeft(s))

Min3(x, y, z) == IF x <= y THEN (IF x <= z THEN x ELSE z) ELSE (IF y <= z THEN y ELSE z)

Max2(x, y) == IF x >= y THEN x ELSE y

\* Math.ceil(n / d) for n >= 0, d > 0
CeilDiv(n, d) == (n + d - 1) \div d

Abs(x) == IF x < 0 THEN -x ELSE x

\* x * 2^k
RECURSIVE Shl(_, _)
Shl(x, k) == IF k = 0 THEN x ELSE Shl(2 * x, k - 1)

\* (x * 2^k) % b
RECURSIVE ShlMod(_, _, _)
ShlMod(x, k, b) == IF k = 0 THEN x % b ELSE ShlMod((2 * x) % b, k - 1, b)

\* the least p with a * 2^p >= b, and the least q with a < 2 * b * 2^q
RECURSIVE BitsUp(_, _)
BitsUp(a, b) == IF a >= b THEN 0 ELSE 1 + BitsUp(2 * a, b)

RECURSIVE BitsDown(_, _)
BitsDown(a, b) == IF a < 2 * b THEN 0 ELSE 1 + BitsDown(a, 2 * b)

\* Math.ceil((timeLeft / drawTime) * 100): the numbers of the program are
\* IEEE-754 doubles, and both the quotient and the product are rounded to 53
\* significant bits, to the nearest, ties to even.  For integers of less than
\* 20 bits: the quotient is |timeLeft| * 2^k / |drawTime| rounded to an
\* integer of 53 bits, k = 52 + p - q, and r is the remainder of that
\* division.  When 100 * timeLeft / drawTime is no integer it is further from
\* one than the two roundings can move it.  When it is the integer N, the
\* product is N * 2^k plus 100 times the rounding error of the quotient
\* (below 50 in size, and N * 2^k is a double), and it is rounded to a
\* multiple of 64 when it is below 2^59 (the quotient's significand below
\* 1.28) and of 128 otherwise: it leaves N when the quotient was rounded by
\* more than 0.32 of its last bit and the product is below 2^59.
MathCeilPercent(timeLeft, drawTime) ==
  LET a == Abs(timeLeft)
      b == Abs(drawTime)
      negative == (timeLeft < 0) # (drawTime < 0)
      p == BitsUp(a, b)
      q == BitsDown(Shl(a, p), b)
      r == ShlMod(a, 52 + p - q, b)
      N == (100 * a) \div b
      roundedUp == 2 * r > b
      below59 == 100 * Shl(a, p) < 128 * Shl(b, q)
      over == below59 /\ roundedUp /\ 100 * (b - r) > 32 * b
      under == below59 /\ ~roundedUp /\ 100 * r > 32 * b
  IN IF timeLeft = 0 THEN 0
     ELSE IF (100 * a) % b # 0 THEN (IF negative THEN -N ELSE N + 1)
     ELSE IF negative THEN (IF under THEN 1 - N ELSE -N)
     ELSE IF over THEN N + 1 ELSE N

\* all strings over alphabet A of a length in lo..hi
StringsOver(A, lo, hi) == UNION {[1..n -> A] : n \in lo..hi}

----------------------------------------------------------------------------
(* levenshteinDistance: the matrix is filled row by row; a row is a tuple  *)
(* whose element j+1 is matrix[i][j].                                      *)

\* (the tests of Len make TLC compute a cell and a row before it goes on)
RECURSIVE LevCells(_, _, _, _, _)
LevCells(a, bc, prev, cur, j) ==
  IF j > Len(a) THEN cur
  ELSE LET c == IF bc = a[j]
                THEN prev[j]
                ELSE Min3(prev[j] + 1, cur[j] + 1, prev[j + 1] + 1)
           next == Append(cur, c)
       IN IF Len(next) = j + 1 THEN LevCells(a, bc, prev, next, j + 1) ELSE <<>>

RECURSIVE LevRows(_, _, _, _)
LevRows(a, b, prev, i) ==
  IF i > Len(b) THEN prev
  ELSE LET row == LevCells(a, b[i], prev, <<i>>, 1)
       IN IF Len(row) = Len(a) + 1 THEN LevRows(a, b, row, i + 1) ELSE <<>>

levenshteinDistance(a, b) ==
  LevRows(a, b, [j \in 1..(Len(a) + 1) |-> j - 1], 1)[Len(a) + 1]

\* the near-match test of the chat handler, with the length test off by one
IsCloseEnoughOffByOne(normalizedGuess, normalizedWord) ==
  /\ Len(normalizedGuess) >= CloseLen
  /\ Len(normalizedWord) >= CloseLen
  /\ levenshteinDistance(normalizedGuess, normalizedWord) = 1

\* chatMessage handler: isCloseEnough
IsCloseEnough(normalizedGuess, normalizedWord) ==
  /\ Len(normalizedGuess) > CloseLen
  /\ Len(normalizedWord) > CloseLen
  /\ levenshteinDistance(normalizedGuess, normalizedWord) = 1

\* chatMessage handler: isExactMatch || isCloseEnough on the normalized texts
IsCorrectGuess(message, word) ==
  LET normalizedGuess == trim(toLowerCase(message))
      normalizedWord == trim(toLowerCase(word))
  IN \/ normalizedGuess = normalizedWord
     \/ IsCloseEnough(normalizedGuess, normalizedWord)

----------------------------------------------------------------------------
(* Masking and hints *)

\* handleWordSelection: selectedWord.replace(/[a-zA-Z]/g, '_')
MaskLetters(word) == [i \in 1..Len(word) |-> IF word[i] \in Letters THEN "_" ELSE word[i]]

\* generateMaskedWordWithHints; positions are the 1-based indices of the tuple
generateMaskedWordWithHints(word, revealedPositions) ==
  [i \in 1..Len(word) |->
     IF word[i] = Space THEN Space
     ELSE IF i \in revealedPositions THEN word[i]
     ELSE "_"]

\* revealHint: the positions still available
AvailablePositions(word, positions) ==
  {i \in 1..Len(word) : word[i] # Space /\ i \notin positions}

\* revealHint's count, with the second hint taking a quarter as well
ToRevealQuarterOnly(n, hintNumber) == Max2(1, CeilDiv(n, 4))

\* revealHint: toReveal for n available positions
ToReveal(n, hintNumber) ==
  IF hintNumber = 1 THEN Max2(1, CeilDiv(n, 4)) ELSE Max2(1, CeilDiv(n, 2))

\* revealHint: the sets the shuffle-and-slice can pick
RevealChoices(word, positions, hintNumber) ==
  LET avail == AvailablePositions(word, positions)
  IN IF avail = {} THEN {}
     ELSE {S \in SUBSET avail : Cardinality(S) = ToReveal(Cardinality(avail), hintNumber)}

----------------------------------------------------------------------------
(* The server state *)

VARIABLES
  rooms,     \* the rooms Map: room id -> room object
  live,      \* the setInterval handles not yet cleared, as <<room id, handle>>
  pending,   \* the setTimeout callbacks not yet run (a bag)
  socks,     \* the connections: "idle" (not yet made), "open" or "closed", and
             \* the stable identity of the client at the other end
  nextRoom,  \* the next room id generateRoomId hands out
  out,       \* the events emitted by the last handler or callback
  publicRooms, \* the publicRooms Map: room id -> entry of the public listing
  req        \* the request the last step served, when it was a joinRoom or a
             \* chatMessage, and the callback, when it was the removal after the
             \* grace period or the sweep (with the first room it found idle)

vars == <<rooms, live, pending, socks, nextRoom, out, publicRooms, req>>

ClientIds == 1..MaxClients
RoomIds == 1..MaxRooms
Handles == 1..MaxHandles

W1 == <<"d", "o", "g">>
W2 == <<"a", "b">>
W3 == <<"b", "a", "t">>
Chatter == <<"l", "o", "l">>

\* the words of the dictionary file
Dictionary == {W1, W2, W3}

\* getRandomWords(3): three distinct words in the order the shuffle leaves
\* them in (with three words in the dictionary usedWords is cleared by every
\* call after the first); the handlers below get the outcome as opts
getRandomWords == {t \in [1..3 -> Dictionary] : \A i, j \in 1..3 : i # j => t[i] # t[j]}

NoRef == [null |-> TRUE, cid |-> 0, gone |-> FALSE, id |-> 0, ident |-> 0]

RefTo(p) == [null |-> FALSE, cid |-> p.clientId, gone |-> FALSE, id |-> p.id, ident |-> p.ident]

\* a player object; ident is the stable identity of the request that made it
NewPlayer(id, clientId, ident, isHost) ==
  [id |-> id, clientId |-> clientId, ident |-> ident, score |-> 0, isHost |-> isHost,
   isDrawing |-> FALSE, hasGuessedCorrectly |-> FALSE, isConnected |-> TRUE,
   hasDrawnThisRound |-> FALSE]

NoHints == [set |-> FALSE, count |-> 0, positions |-> {}]
\* a hint state that says hint 1 revealed the first letter
UsedHints == [set |-> TRUE, count |-> 1, positions |-> {1}]
FreshHints == [set |-> TRUE, count |-> 0, positions |-> {}]
NoHintTimes == [set |-> FALSE, firstHint |-> 0, secondHint |-> 0]

\* createRoomState: the room object with its host (who gets no clientId)
NewRoom(hostId, ident, isPublic) ==
  [isPublic |-> isPublic, hostId |-> hostId, status |-> "waiting",
   players |-> <<NewPlayer(hostId, 0, ident, TRUE)>>,
   currentDrawer |-> NoRef, lastDrawer |-> NoRef,
   word |-> <<>>, wordOptions |-> <<>>, timeLeft |-> 0, round |-> 0,
   totalRounds |-> DefaultRounds, maxPlayers |-> DefaultMaxPlayers,
   drawTime |-> DefaultDrawTime, timer |-> 0, chatHistory |-> <<>>,
   hintsRevealed |-> NoHints, hintTimes |-> NoHintTimes, currentTurn |-> 0,
   turnNo |-> 0, roundDrawers |-> <<>>, hintLog |-> <<>>, timerReplaced |-> FALSE,
   drawingHistory |-> <<>>]

\* the part of the state the handlers work on
World ==
  [rooms |-> rooms, live |-> live, pending |-> pending, out |-> {},
   publicRooms |-> publicRooms]

Ev(ev, to, word, chat) ==
  [ev |-> ev, to |-> to, word |-> word, chat |-> chat, players |-> <<>>, timeLeft |-> 0]

Say(w, E) == [w EXCEPT !.out = @ \cup E]

PutRoom(w, r, room) == [w EXCEPT !.rooms[r] = room]

\* the entry updatePublicRoomInfo writes for a room (its name left out)
PublicInfo(room) ==
  [players |-> Len(room.players),
   maxPlayers |-> IF room.maxPlayers = 0 THEN DefaultMaxPlayers ELSE room.maxPlayers,
   inProgress |-> room.status # "waiting"]

\* publicRooms.set(r, entry)
SetPublic(w, r, entry) ==
  [w EXCEPT !.publicRooms = [q \in DOMAIN w.publicRooms \cup {r} |->
                               IF q = r THEN entry ELSE w.publicRooms[q]]]

\* the listing left as it is
KeepPublicRooms(w, r) == w

\* updatePublicRoomInfo
updatePublicRoomInfo(w, r) ==
  IF r \notin DOMAIN w.rooms \/ ~w.rooms[r].isPublic THEN w
  ELSE SetPublic(w, r, PublicInfo(w.rooms[r]))

\* updatePublicRoomsList: the listing is cleared and made again
updatePublicRoomsList(w) ==
  [w EXCEPT !.publicRooms = [q \in {x \in DOMAIN w.rooms : w.rooms[x].isPublic} |->
                               PublicInfo(w.rooms[q])]]

Later(w, kind, r, s, allDrawn) ==
  [w EXCEPT !.pending = @ (+) SetToBag({[kind |-> kind, room |-> r, sock |-> s, allDrawn |-> allDrawn]})]

Idx(room) == 1..Len(room.players)

\* io.to(player.id).emit reaches the player's socket while it is open
ToPlayers(room, I, ev, word, chat) ==
  {Ev(ev, room.players[i].id, word, chat) : i \in {j \in I : room.players[j].isConnected}}

\* io.to(roomId).emit, as far as the room's players are concerned
ToRoom(room, ev, word, chat) == ToPlayers(room, Idx(room), ev, word, chat)

\* findUserRoom: the first room with a player of that id, 0 for null
findUserRoom(w, s) ==
  LET R == {r \in DOMAIN w.rooms : \E i \in Idx(w.rooms[r]) : w.rooms[r].players[i].id = s}
  IN IF R = {} THEN 0 ELSE CHOOSE r \in R : \A q \in R : r <= q

\* players.find(p => p.id === s), 0 when there is none
FindById(room, s) ==
  LET I == {i \in Idx(room) : room.players[i].id = s}
  IN IF I = {} THEN 0 ELSE CHOOSE i \in I : \A j \in I : i <= j

\* players.find(p => p.clientId === clientId), 0 when there is none
FindByClientId(room, clientId) ==
  LET I == {i \in Idx(room) : room.players[i].clientId = clientId}
  IN IF I = {} THEN 0 ELSE CHOOSE i \in I : \A j \in I : i <= j

\* chatHistory.push(m) followed by the shift above the limit
\* the push without the shift
PushChatNoShift(room, m) == [room EXCEPT !.chatHistory = Append(@, m)]

\* room.chatHistory.push(m); if (room.chatHistory.length > 100) room.chatHistory.shift()
PushChat(room, m) ==
  LET h == Append(room.chatHistory, m)
  IN [room EXCEPT !.chatHistory = IF Len(h) > ChatLimit THEN Tail(h) ELSE h]

ChatEntry(room, playerId, message, fromCorrectGuesser, type) ==
  [playerId |-> playerId, message |-> message, fromCorrectGuesser |-> fromCorrectGuesser,
   type |-> type, turn |-> room.turnNo]

\* clearInterval(room.timer)
ClearTimer(w, r, room) == IF room.timer # 0 THEN w.live \ {<<r, room.timer>>} ELSE w.live

\* the handle setInterval returns: one that is not live
NewHandle(L, r) ==
  LET free == {h \in Handles : <<r, h>> \notin L}
  IN IF free = {} THEN MaxHandles ELSE CHOOSE h \in free : \A g \in free : h <= g

\* the largest power of 2 that is at most n, n >= 1
RECURSIVE Pow2Below(_)
Pow2Below(n) == IF n < 2 THEN 1 ELSE 2 * Pow2Below(n \div 2)

\* Math.floor(total * 0.4) and Math.floor(total * 0.7), in doubles.  The
\* double 0.4 is above 0.4 and the floor of the product is that of the exact
\* one.  The double 0.7 is 0.7 - 0.4 * 2^-53: when 0.7 * total is an integer N
\* the exact product is total * 0.4 * 2^-53 below N, and it is rounded to the
\* double below N, not to N, when that is more than half of the spacing
\* 2^-52 * Pow2Below(N) of the doubles there (for total = 90, as with the
\* default drawTime: 62, not 63).
FloorTenths(total, tenths) ==
  LET N == (total * tenths) \div 10
  IN IF tenths = 7 /\ (total * 7) % 10 = 0 /\ N > 0 /\ 4 * total > 10 * Pow2Below(N)
     THEN N - 1 ELSE N

\* startGameTimer that leaves the previous interval running
startGameTimerNoClear(w, r) ==
  IF r \notin DOMAIN w.rooms THEN w
  ELSE LET room == w.rooms[r]
           h == NewHandle(w.live, r)
           total == room.drawTime + 10
           room1 == IF room.status = "playing" /\ ~room.hintsRevealed.set
                    THEN [room EXCEPT !.hintsRevealed = FreshHints] ELSE room
           room2 == IF room1.status = "playing"
                    THEN [room1 EXCEPT !.hintTimes =
                            [set |-> TRUE,
                             firstHint |-> room1.timeLeft - FloorTenths(total, 4),
                             secondHint |-> room1.timeLeft - FloorTenths(total, 7)]]
                    ELSE room1
       IN [w EXCEPT !.rooms[r] = [room2 EXCEPT !.timer = h,
                                                !.timerReplaced = <<r, room.timer>> \in w.live],
                    !.live = w.live \cup {<<r, h>>}]

\* startGameTimer
startGameTimer(w, r) ==
  IF r \notin DOMAIN w.rooms THEN w
  ELSE LET room == w.rooms[r]
           live1 == ClearTimer(w, r, room)
           h == NewHandle(live1, r)
           total == room.drawTime + 10
           room1 == IF room.status = "playing" /\ ~room.hintsRevealed.set
                    THEN [room EXCEPT !.hintsRevealed = FreshHints] ELSE room
           room2 == IF room1.status = "playing"
                    THEN [room1 EXCEPT !.hintTimes =
                            [set |-> TRUE,
                             firstHint |-> room1.timeLeft - FloorTenths(total, 4),
                             secondHint |-> room1.timeLeft - FloorTenths(total, 7)]]
                    ELSE room1
       IN [w EXCEPT !.rooms[r] = [room2 EXCEPT !.timer = h,
                                                !.timerReplaced = <<r, room.timer>> \in w.live],
                    !.live = live1 \cup {<<r, h>>}]

\* revealHint: one world for each set of positions the shuffle can pick
revealHint(w, r, hintNumber) ==
  IF r \notin DOMAIN w.rooms THEN {w}
  ELSE LET room == w.rooms[r]
           choices == RevealChoices(room.word, room.hintsRevealed.positions, hintNumber)
       IN IF room.word = <<>> \/ room.status # "playing" \/ choices = {} THEN {w}
          ELSE {LET positions == room.hintsRevealed.positions \cup S
                    room1 == [room EXCEPT !.hintsRevealed =
                                [set |-> TRUE, count |-> hintNumber, positions |-> positions],
                                          !.hintLog = Append(@, [hint |-> hintNumber, revealed |-> S])]
                    maskedWord == generateMaskedWordWithHints(room.word, positions)
                    I == {i \in Idx(room) : /\ room.players[i].id # room.currentDrawer.id
                                            /\ ~room.players[i].hasGuessedCorrectly}
                IN Say(PutRoom(w, r, room1),
                       IF room.currentDrawer.null THEN {}
                       ELSE ToPlayers(room, I, "wordHint", maskedWord, <<>>))
                : S \in choices}

\* handleWordSelection; the loop over the players throws when there is no
\* current drawer, after the room fields were set
handleWordSelection(w, r, selectedWord) ==
  IF r \notin DOMAIN w.rooms \/ selectedWord = <<>> THEN w
  ELSE LET room == w.rooms[r]
           live1 == ClearTimer(w, r, room)
           room1 == [room EXCEPT !.timer = 0, !.word = selectedWord, !.status = "playing",
                                 !.timeLeft = IF room.drawTime = 0 THEN DefaultDrawTime
                                              ELSE room.drawTime,
                                 !.hintsRevealed = FreshHints,
                                 !.drawingHistory = <<>>]
           w1 == [w EXCEPT !.rooms[r] = room1, !.live = live1]
           D == {i \in Idx(room1) : room1.players[i].id = room1.currentDrawer.id}
           sent == ToPlayers(room1, D, "roundStart", selectedWord, <<>>)
                   \cup ToPlayers(room1, Idx(room1) \ D, "roundStart", MaskLetters(selectedWord), <<>>)
                   \cup ToPlayers(room1, Idx(room1) \ D, "wordHint", MaskLetters(selectedWord), <<>>)
       IN IF room1.currentDrawer.null THEN w1
          ELSE startGameTimer(Say(w1, sent), r)

\* endRound
endRound(w, r) ==
  IF r \notin DOMAIN w.rooms THEN w
  ELSE LET room == w.rooms[r]
           live1 == ClearTimer(w, r, room)
           room1 == [room EXCEPT
                       !.timer = 0,
                       !.players = [i \in Idx(room) |->
                                      [room.players[i] EXCEPT !.hasGuessedCorrectly = FALSE,
                                                              !.isDrawing = FALSE]],
                       !.currentDrawer = NoRef]
           allPlayersHaveDrawn ==
             \A i \in Idx(room1) : room1.players[i].hasDrawnThisRound \/ ~room1.players[i].isConnected
           w1 == [w EXCEPT !.rooms[r] = room1, !.live = live1]
       IN Later(w1, "advance", r, 0, allPlayersHaveDrawn)

\* the players in the order of the list, reversed
Reversed(players) == [i \in 1..Len(players) |-> players[Len(players) + 1 - i]]

\* [...players].sort((a, b) => b.score - a.score): a stable sort, so of two
\* players with the same score the one earlier in the list comes first
RECURSIVE InsertByScore(_, _)
InsertByScore(sorted, p) ==
  IF sorted = <<>> THEN <<p>>
  ELSE IF sorted[Len(sorted)].score >= p.score THEN Append(sorted, p)
  ELSE Append(InsertByScore(SubSeq(sorted, 1, Len(sorted) - 1), p), sorted[Len(sorted)])

RECURSIVE SortFrom(_, _, _)
SortFrom(players, sorted, i) ==
  IF i > Len(players) THEN sorted
  ELSE SortFrom(players, InsertByScore(sorted, players[i]), i + 1)

sortedPlayers(players) == SortFrom(players, <<>>, 1)

\* endGame
endGame(w, r) ==
  IF r \notin DOMAIN w.rooms THEN w
  ELSE LET room == w.rooms[r]
           room1 == [room EXCEPT !.status = "gameEnd"]
           sorted == sortedPlayers(room1.players)
           sent == {[e EXCEPT !.players = sorted] : e \in ToRoom(room1, "gameEnded", <<>>, <<>>)}
       IN updatePublicRoomInfo(Say([w EXCEPT !.rooms[r] = room1,
                                             !.live = ClearTimer(w, r, room)], sent), r)

\* room.players.forEach(player => { player.hasDrawnThisRound = false })
ResetDrawn(players) == [i \in DOMAIN players |-> [players[i] EXCEPT !.hasDrawnThisRound = FALSE]]

\* startRound's "Setup new drawer" and what follows it, for the drawer at
\* index d and the word options opts
SetupDrawer(w, r, room, d, opts) ==
  LET room1 == [room EXCEPT
                  !.players[d].isDrawing = TRUE,
                  !.players[d].hasDrawnThisRound = TRUE,
                  !.currentDrawer = RefTo(room.players[d]),
                  !.lastDrawer = RefTo(room.players[d]),
                  !.currentTurn = @ + 1,
                  !.wordOptions = opts,
                  !.status = "selecting",
                  !.timeLeft = SelectTime,
                  !.turnNo = @ + 1,
                  !.hintLog = <<>>,
                  !.roundDrawers = Append(@, room.players[d].clientId)]
  IN updatePublicRoomInfo(startGameTimer(PutRoom(w, r, room1), r), r)

\* startRound: one world for each drawer the random pick can give
startRound(w, r, opts) ==
  IF r \notin DOMAIN w.rooms THEN {w}
  ELSE LET room == w.rooms[r]
           room1 == [room EXCEPT
                       !.players = [i \in Idx(room) |->
                                      [room.players[i] EXCEPT !.hasGuessedCorrectly = FALSE,
                                                              !.isDrawing = FALSE]],
                       !.currentTurn = IF @ = 0 THEN 1 ELSE @]
           activePlayers == {i \in Idx(room1) : room1.players[i].isConnected}
           turnsDone == room1.currentTurn > Cardinality(activePlayers)
           \* "Start new round"
           room2 == IF turnsDone
                    THEN [room1 EXCEPT !.currentTurn = 1, !.players = ResetDrawn(@),
                                       !.round = @ + 1, !.lastDrawer = NoRef,
                                       !.roundDrawers = <<>>]
                    ELSE room1
           eligibleDrawers ==
             {i \in Idx(room2) : /\ ~room2.players[i].hasDrawnThisRound
                                 /\ room2.players[i].isConnected
                                 /\ (room2.lastDrawer.null
                                     \/ room2.players[i].id # room2.lastDrawer.id)}
           \* "If no eligible drawers, reset for next round"
           room3 == [room2 EXCEPT !.players = ResetDrawn(@), !.currentTurn = 1,
                                  !.round = @ + 1, !.lastDrawer = NoRef,
                                  !.roundDrawers = <<>>]
           first == IF activePlayers = {} THEN 0
                    ELSE CHOOSE i \in activePlayers : \A j \in activePlayers : i <= j
       IN IF turnsDone /\ room2.round > room2.totalRounds
          THEN {endGame(PutRoom(w, r, room2), r)}
          ELSE IF eligibleDrawers # {}
          THEN {SetupDrawer(w, r, room2, d, opts) : d \in eligibleDrawers}
          ELSE IF room3.round > room3.totalRounds
          THEN {endGame(PutRoom(w, r, room3), r)}
          ELSE IF first = 0
          THEN {PutRoom(w, r, room3)}
          ELSE {SetupDrawer(w, r, room3, first, opts)}

\* a reference after the objects with the client ids in C left room.players
MarkGone(ref, C) ==
  IF ~ref.null /\ ~ref.gone /\ ref.cid \in C THEN [ref EXCEPT !.gone = TRUE] ELSE ref

\* handlePlayerLeave(socket, roomId)
handlePlayerLeave(w, s, r) ==
  IF r \notin DOMAIN w.rooms THEN w
  ELSE LET room == w.rooms[r]
           wasDrawing == ~room.currentDrawer.null /\ room.currentDrawer.id = s
           Keep(p) == p.id # s
           left == {room.players[i].clientId : i \in {j \in Idx(room) : room.players[j].id = s}}
           room1 == [room EXCEPT !.players = SelectSeq(@, Keep),
                                 !.currentDrawer = MarkGone(@, left),
                                 !.lastDrawer = MarkGone(@, left)]
           room2 == IF room1.hostId = s
                    THEN [room1 EXCEPT !.hostId = room1.players[1].id,
                                       !.players[1].isHost = TRUE]
                    ELSE room1
           m == ChatEntry(room2, 0, <<>>, FALSE, IF wasDrawing THEN "leave-drawing" ELSE "system")
           room3 == PushChat(room2, m)
           room4 == IF wasDrawing THEN [room3 EXCEPT !.timer = 0] ELSE room3
           live1 == IF wasDrawing THEN ClearTimer(w, r, room3) ELSE w.live
           w1 == Say([w EXCEPT !.rooms[r] = room4, !.live = live1],
                     ToRoom(room4, "chatMessage", <<>>, <<m>>))
       IN IF room1.players = <<>>
          THEN updatePublicRoomsList(
                 [w EXCEPT !.rooms = [q \in DOMAIN w.rooms \ {r} |-> w.rooms[q]],
                           !.live = ClearTimer(w, r, room)])
          ELSE IF wasDrawing THEN updatePublicRoomsList(Later(w1, "startRound", r, 0, FALSE))
          ELSE updatePublicRoomsList(w1)

----------------------------------------------------------------------------
(* The socket handlers *)

\* socket.on('createRoom'): isRoomPublic is isPublic === true || isPrivate === false
createRoom(w, s, clientId, isPublic, r) ==
  LET w1 == [w EXCEPT !.rooms = [q \in DOMAIN w.rooms \cup {r} |->
                                   IF q = r THEN NewRoom(s, clientId, isPublic)
                                   ELSE w.rooms[q]]]
      entry == [players |-> 1, maxPlayers |-> DefaultMaxPlayers, inProgress |-> FALSE]
  IN Say(IF isPublic THEN SetPublic(w1, r, entry) ELSE w1,
         {Ev("joinedRoom", s, <<>>, <<>>)})

\* a reference after the object with client id cid got the socket id s
Rebound(ref, cid, s) ==
  IF ~ref.null /\ ~ref.gone /\ ref.cid = cid THEN [ref EXCEPT !.id = s] ELSE ref

\* socket.on('joinRoom'); room.gameInProgress and room.currentWord are set
\* nowhere, so the in-progress test never rejects and the word of the rejoin
\* payload is undefined (the empty tuple here)
joinRoom(w, s, r, clientId) ==
  IF r \notin DOMAIN w.rooms THEN Say(w, {Ev("errorMessage", s, <<>>, <<>>)})
  ELSE LET room == w.rooms[r]
           e == FindByClientId(room, clientId)
           room1 == [room EXCEPT !.players[e].id = s,
                                 !.players[e].isConnected = TRUE,
                                 !.currentDrawer = Rebound(@, clientId, s),
                                 !.lastDrawer = Rebound(@, clientId, s)]
           player == NewPlayer(s, clientId, clientId, Len(room.players) = 0)
           room2 == [room EXCEPT !.players = Append(@, player)]
       IN IF Len(room.players) >= room.maxPlayers
          THEN Say(w, {Ev("errorMessage", s, <<>>, <<>>)})
          ELSE IF e # 0
          THEN Say(PutRoom(w, r, room1),
                   {Ev("rejoinedRoom", s, <<>>, room1.chatHistory)})
          ELSE updatePublicRoomInfo(Say(PutRoom(w, r, room2),
                                        {Ev("joinedRoom", s, <<>>, <<>>)}), r)

\* settings.x || default
OrDefault(x, d) == IF x = 0 THEN d ELSE x

\* the host test that lets everybody through
NotHostNever(room, me) == FALSE

\* startGame handler: !player || !player.isHost
NotHost(room, me) == me = 0 \/ ~room.players[me].isHost

\* socket.on('startGame'): one world for each drawer the random pick can give
startGame(w, s, settings, opts) ==
  LET r == findUserRoom(w, s)
      room == w.rooms[r]
      me == FindById(room, s)
      fail == {Say(w, {Ev("errorMessage", s, <<>>, <<>>)})}
  IN IF r = 0 THEN fail
     ELSE IF Len(room.players) < 2 THEN fail
     ELSE IF NotHost(room, me) THEN fail
     ELSE LET mp == OrDefault(settings.maxPlayers, DefaultMaxPlayers)
              room1 == [room EXCEPT
                          !.drawTime = OrDefault(settings.drawTime, DefaultDrawTime),
                          !.totalRounds = OrDefault(settings.rounds, DefaultRounds),
                          !.maxPlayers = IF mp < MaxPlayersPerRoom THEN mp ELSE MaxPlayersPerRoom,
                          !.round = 1,
                          !.status = "playing",
                          !.roundDrawers = <<>>]
              eligiblePlayers == {i \in Idx(room1) : room1.players[i].isConnected}
          IN IF eligiblePlayers = {}
             THEN {Say(PutRoom(w, r, room1), {Ev("errorMessage", s, <<>>, <<>>)})}
             ELSE {LET room2 == [room1 EXCEPT
                                   !.players[d].isDrawing = TRUE,
                                   !.players[d].hasDrawnThisRound = TRUE,
                                   !.currentDrawer = RefTo(room1.players[d]),
                                   !.wordOptions = opts,
                                   !.timeLeft = SelectTime,
                                   !.status = "selecting",
                                   !.turnNo = @ + 1,
                                   !.hintLog = <<>>,
                                   !.roundDrawers = Append(@, room1.players[d].clientId)]
                   IN startGameTimer(updatePublicRoomInfo(PutRoom(w, r, room2), r), r)
                   : d \in eligiblePlayers}

\* socket.on('disconnect')
disconnect(w, s) ==
  LET r == findUserRoom(w, s)
      room == w.rooms[r]
      me == FindById(room, s)
      room1 == [room EXCEPT !.players[me].isConnected = FALSE]
      wasDrawing == /\ ~room1.currentDrawer.null
                    /\ room1.currentDrawer.id = s
                    /\ room1.status \in {"playing", "selecting"}
      m == ChatEntry(room1, 0, <<>>, FALSE, "leave-drawing")
      room2 == [PushChat(room1, m) EXCEPT !.timer = 0]
      w1 == PutRoom(w, r, room1)
      w2 == Say([w1 EXCEPT !.rooms[r] = room2, !.live = ClearTimer(w, r, room1)],
                ToRoom(room2, "chatMessage", <<>>, <<m>>))
  IN IF r = 0 THEN w
     ELSE IF wasDrawing THEN Later(handlePlayerLeave(w2, s, r), "startRound", r, 0, FALSE)
     ELSE Later(w1, "grace", r, s, FALSE)

\* socket.on('leaveRoom')
leaveRoom(w, s) ==
  LET r == findUserRoom(w, s)
  IN IF r = 0 THEN w ELSE handlePlayerLeave(w, s, r)

\* socket.on('selectWord')
selectWord(w, s, word) ==
  LET r == findUserRoom(w, s)
      room == w.rooms[r]
  IN IF r = 0 THEN w
     ELSE IF room.currentDrawer.null \/ room.currentDrawer.id # s \/ room.status # "selecting"
     THEN w
     ELSE handleWordSelection(w, r, word)

\* chatMessage handler, player.isDrawing: an ordinary message to the room
chatFromDrawer(w, r, room, s, message) ==
  LET m == ChatEntry(room, s, message, FALSE, "chat")
  IN Say(PutRoom(w, r, PushChat(room, m)), ToRoom(room, "chatMessage", <<>>, <<m>>))

\* chatMessage handler, player.hasGuessedCorrectly: to the winners and the drawer
chatFromWinner(w, r, room, s, message) ==
  LET m == ChatEntry(room, s, message, TRUE, "chat")
      I == {i \in Idx(room) : room.players[i].hasGuessedCorrectly \/ room.players[i].isDrawing}
  IN Say(PutRoom(w, r, PushChat(room, m)), ToPlayers(room, I, "chatMessage", <<>>, <<m>>))

\* chatMessage handler, room.status === 'playing': the guess of player me; the
\* test of allNonDrawersGuessed throws when there is no current drawer (the
\* handler's catch logs it), and p.disconnected is a field no player has
chatGuess(w, r, room, me, s, message, isCloseGuess) ==
  LET scoreGain == MathCeilPercent(room.timeLeft, room.drawTime) + 50
      correct == ChatEntry(room, 0, <<>>, FALSE, "correct")
      roomC == PushChat([room EXCEPT !.players[me].hasGuessedCorrectly = TRUE,
                                     !.players[me].score = @ + scoreGain], correct)
      wC == Say(PutRoom(w, r, roomC),
                ToRoom(roomC, "chatMessage", <<>>, <<correct>>)
                \cup ToPlayers(roomC, {me}, "wordGuessed", roomC.word, <<>>)
                \cup ToPlayers(roomC, {me}, "wordHint", roomC.word, <<>>))
      allNonDrawersGuessed ==
        \A i \in Idx(roomC) : \/ roomC.players[i].id = roomC.currentDrawer.id
                              \/ roomC.players[i].hasGuessedCorrectly
      close == ChatEntry(room, 0, <<>>, FALSE, "close")
      m == ChatEntry(room, s, message, FALSE, "chat")
  IN IF IsCorrectGuess(message, room.word)
     THEN IF roomC.currentDrawer.null THEN wC
          ELSE IF allNonDrawersGuessed
          THEN Later([wC EXCEPT !.live = ClearTimer(wC, r, roomC)], "endRound", r, 0, FALSE)
          ELSE wC
     ELSE IF isCloseGuess
     THEN Say(PutRoom(w, r, PushChat(PushChat(room, close), m)),
              ToRoom(room, "chatMessage", <<>>, <<close>>)
              \cup ToRoom(room, "chatMessage", <<>>, <<m>>))
     ELSE Say(PutRoom(w, r, PushChat(room, m)), ToRoom(room, "chatMessage", <<>>, <<m>>))

\* socket.on('chatMessage')
chatMessage(w, s, message, isCloseGuess) ==
  LET r == findUserRoom(w, s)
      room == w.rooms[r]
      me == FindById(room, s)
      m == ChatEntry(room, s, message, FALSE, "chat")
  IN IF r = 0 THEN w
     ELSE IF room.players[me].isDrawing THEN chatFromDrawer(w, r, room, s, message)
     ELSE IF room.players[me].hasGuessedCorrectly THEN chatFromWinner(w, r, room, s, message)
     ELSE IF room.status = "playing" THEN chatGuess(w, r, room, me, s, message, isCloseGuess)
     ELSE Say(PutRoom(w, r, PushChat(room, m)), ToRoom(room, "chatMessage", <<>>, <<m>>))

\* socket.on('drawing'): data is a clear, a fill or a line, or none of them
\* ("bad": a fill or a line whose coordinates are no numbers)
drawing(w, s, data) ==
  LET r == findUserRoom(w, s)
      room == w.rooms[r]
      shown == {[e EXCEPT !.word = <<data>>] : e \in ToRoom(room, "drawingData", <<>>, <<>>)}
  IN IF r = 0 THEN w
     ELSE IF ~room.currentDrawer.null /\ room.currentDrawer.id # s THEN w
     ELSE IF data = "clear"
     THEN Say(PutRoom(w, r, [room EXCEPT !.drawingHistory = <<>>]), shown)
     ELSE IF data \in {"fill", "line"}
     THEN Say(PutRoom(w, r, [room EXCEPT !.drawingHistory = Append(@, data)]), shown)
     ELSE w

\* socket.on('clearCanvas')
clearCanvas(w, s) ==
  LET r == findUserRoom(w, s)
      room == w.rooms[r]
  IN IF r = 0 THEN w
     ELSE IF room.currentDrawer.null \/ room.currentDrawer.id # s \/ room.status # "playing"
     THEN w
     ELSE Say(PutRoom(w, r, [room EXCEPT !.drawingHistory = <<>>]),
              ToRoom(room, "canvasCleared", <<>>, <<>>))

----------------------------------------------------------------------------
(* The timer callbacks *)

\* the end of a countdown that stops the timer and selects nothing
TickTimeoutNoSelect(w, r) ==
  LET room == w.rooms[r]
  IN IF room.timeLeft > 0 THEN w
     ELSE [w EXCEPT !.rooms[r].timer = 0, !.live = ClearTimer(w, r, room)]

\* the setInterval callback of startGameTimer at its "if (room.timeLeft <= 0)"
TickTimeout(w, r) ==
  LET room == w.rooms[r]
      w1 == [w EXCEPT !.rooms[r].timer = 0, !.live = ClearTimer(w, r, room)]
  IN IF room.timeLeft > 0 THEN w
     ELSE IF room.status = "selecting"
     THEN (IF room.wordOptions = <<>> THEN w1 ELSE handleWordSelection(w1, r, room.wordOptions[1]))
     ELSE IF room.status = "playing" THEN endRound(w1, r)
     ELSE w1

\* the hint test of the callback for hint n
HintDue(room, n) ==
  /\ room.status = "playing" /\ room.word # <<>> /\ room.hintsRevealed.set /\ room.hintTimes.set
  /\ room.hintsRevealed.count = n - 1
  /\ room.timeLeft = IF n = 1 THEN room.hintTimes.firstHint ELSE room.hintTimes.secondHint

\* the setInterval callback of startGameTimer (it throws when the room is gone)
tick(w, r) ==
  IF r \notin DOMAIN w.rooms THEN {w}
  ELSE LET w0 == [w EXCEPT !.rooms[r].timeLeft = @ - 1]
           w1 == Say(w0, {[e EXCEPT !.timeLeft = w0.rooms[r].timeLeft] :
                            e \in ToRoom(w0.rooms[r], "timeUpdate", <<>>, <<>>)})
           after1 == IF HintDue(w1.rooms[r], 1) THEN revealHint(w1, r, 1) ELSE {w1}
           after2 == UNION {IF HintDue(x.rooms[r], 2) THEN revealHint(x, r, 2) ELSE {x} : x \in after1}
       IN {TickTimeout(x, r) : x \in after2}

\* the setTimeout callbacks: endRound's advance (5 s), the chat handler's
\* endRound (1.5 s), the start of a round after the drawer left (2 s) and the
\* removal of a disconnected player (30 s)
fire(w, t, opts) ==
  LET r == t.room
      room == w.rooms[r]
      next == [room EXCEPT !.players = [i \in Idx(room) |->
                                          [room.players[i] EXCEPT !.hasDrawnThisRound = FALSE,
                                                                  !.hasGuessedCorrectly = FALSE]],
                           !.round = @ + 1, !.roundDrawers = <<>>]
      g == FindById(room, t.sock)
  IN IF r \notin DOMAIN w.rooms THEN {w}
     ELSE IF t.kind = "advance"
     THEN (IF ~t.allDrawn THEN startRound(w, r, opts)
           ELSE IF room.round >= room.totalRounds THEN {endGame(w, r)}
           ELSE startRound(PutRoom(w, r, next), r, opts))
     ELSE IF t.kind = "endRound" THEN {endRound(w, r)}
     ELSE IF t.kind = "startRound" THEN startRound(w, r, opts)
     ELSE IF g # 0 /\ ~room.players[g].isConnected THEN {handlePlayerLeave(w, t.sock, r)}
     ELSE {w}

\* the sweep's test for deleting a room, without the test of the status
SweepDeletesIdle(room, isIdle) == room.players = <<>> \/ isIdle

\* the sweep's test for deleting a room; isIdle is now - room.lastActivity > 1800000
SweepDeletes(room, isIdle) ==
  room.players = <<>> \/ (isIdle /\ room.status # "playing" /\ room.status # "selecting")

\* the setInterval callback of every 60 s; old holds the ids of the players
\* whose disconnectedAt is more than 120 s ago, idle the rooms whose
\* lastActivity is more than 30 min ago
sweep(w, old, idle) ==
  LET Keep(p) == ~(~p.isConnected /\ p.id \in old)
      purged == [r \in DOMAIN w.rooms |->
                   [w.rooms[r] EXCEPT !.players = SelectSeq(@, Keep)]]
      deleted == {r \in DOMAIN purged : SweepDeletes(purged[r], r \in idle)}
      cleared == {<<r, purged[r].timer>> : r \in deleted}
  IN updatePublicRoomsList(
       [w EXCEPT !.rooms = [r \in DOMAIN purged \ deleted |-> purged[r]],
                 !.live = @ \ cleared])

----------------------------------------------------------------------------
(* The actions *)

Apply(w) ==
  /\ rooms' = w.rooms /\ live' = w.live /\ pending' = w.pending /\ out' = w.out
  /\ publicRooms' = w.publicRooms

NoReq == [op |-> "none", sock |-> 0, room |-> 0, clientId |-> 0, text |-> <<>>]

IsOpen(s) == s \in DOMAIN socks /\ socks[s].st = "open"

\* io.on('connection'): the next connection is made, by the client with the
\* stable identity c
Connect(c) ==
  \E s \in DOMAIN socks :
    /\ socks[s].st = "idle" /\ \A q \in DOMAIN socks : q < s => socks[q].st # "idle"
    /\ socks' = [socks EXCEPT ![s] = [st |-> "open", ident |-> c]]
    /\ out' = {}
    /\ req' = NoReq
    /\ UNCHANGED <<rooms, live, pending, nextRoom, publicRooms>>

CreateRoom(s, clientId, isPublic) ==
  /\ IsOpen(s) /\ nextRoom <= MaxRooms
  /\ Apply(createRoom(World, s, clientId, isPublic, nextRoom))
  /\ nextRoom' = nextRoom + 1
  /\ req' = NoReq
  /\ UNCHANGED socks

JoinRoom(s, r, clientId) ==
  /\ IsOpen(s)
  /\ Apply(joinRoom(World, s, r, clientId))
  /\ req' = [NoReq EXCEPT !.op = "joinRoom", !.sock = s, !.room = r, !.clientId = clientId]
  /\ UNCHANGED <<socks, nextRoom>>

StartGame(s, settings, opts) ==
  /\ IsOpen(s)
  /\ \E x \in startGame(World, s, settings, opts) : Apply(x)
  /\ req' = NoReq
  /\ UNCHANGED <<socks, nextRoom>>

SelectWord(s, word) ==
  /\ IsOpen(s)
  /\ Apply(selectWord(World, s, word))
  /\ req' = NoReq
  /\ UNCHANGED <<socks, nextRoom>>

ChatMessage(s, message, isCloseGuess) ==
  /\ IsOpen(s)
  /\ Apply(chatMessage(World, s, message, isCloseGuess))
  /\ req' = [NoReq EXCEPT !.op = "chatMessage", !.sock = s, !.text = message]
  /\ UNCHANGED <<socks, nextRoom>>

Drawing(s, data) ==
  /\ IsOpen(s)
  /\ Apply(drawing(World, s, data))
  /\ req' = NoReq
  /\ UNCHANGED <<socks, nextRoom>>

ClearCanvas(s) ==
  /\ IsOpen(s)
  /\ Apply(clearCanvas(World, s))
  /\ req' = NoReq
  /\ UNCHANGED <<socks, nextRoom>>

LeaveRoom(s) ==
  /\ IsOpen(s)
  /\ Apply(leaveRoom(World, s))
  /\ req' = NoReq
  /\ UNCHANGED <<socks, nextRoom>>

Disconnect(s) ==
  /\ IsOpen(s)
  /\ socks' = [socks EXCEPT ![s].st = "closed"]
  /\ Apply(disconnect(World, s))
  /\ req' = NoReq
  /\ UNCHANGED nextRoom

Tick(r, h) ==
  /\ <<r, h>> \in live
  /\ \E x \in tick(World, r) : Apply(x)
  /\ req' = NoReq
  /\ UNCHANGED <<socks, nextRoom>>

Fire(t, opts) ==
  /\ t \in BagToSet(pending)
  /\ \E x \in fire([World EXCEPT !.pending = @ (-) SetToBag({t})], t, opts) : Apply(x)
  /\ req' = (IF t.kind = "grace" THEN [NoReq EXCEPT !.op = "grace", !.room = t.room, !.sock = t.sock]
             ELSE NoReq)
  /\ UNCHANGED <<socks, nextRoom>>

\* the players who have been disconnected for more than 120 s: the 30 s timer
\* of their disconnect has run
StaleIds ==
  LET timed == {t.sock : t \in {u \in BagToSet(pending) : u.kind = "grace"}}
  IN UNION {{rooms[r].players[i].id :
               i \in {j \in Idx(rooms[r]) : /\ ~rooms[r].players[j].isConnected
                                            /\ rooms[r].players[j].id \notin timed}}
            : r \in DOMAIN rooms}

Sweep(old, idle) ==
  /\ old \subseteq StaleIds /\ idle \subseteq DOMAIN rooms
  /\ Apply(sweep(World, old, idle))
  /\ req' = [NoReq EXCEPT !.op = "sweep",
                          !.room = IF idle = {} THEN 0
                                   ELSE CHOOSE r \in idle : \A q \in idle : r <= q]
  /\ UNCHANGED <<socks, nextRoom>>

\* the server after start-up, with n connections to come
InitWith(n) ==
  /\ rooms = <<>>
  /\ live = {}
  /\ pending = EmptyBag
  /\ socks = [s \in 1..n |-> [st |-> "idle", ident |-> 0]]
  /\ nextRoom = 1
  /\ out = {}
  /\ publicRooms = <<>>
  /\ req = NoReq

Init == InitWith(MaxSockets)

EmptyWorld ==
  [rooms |-> <<>>, live |-> {}, pending |-> EmptyBag, out |-> {}, publicRooms |-> <<>>]

Quiet(w) == [w EXCEPT !.out = {}]

\* the server after client 1 made room 1 on connection 1 and the clients
\* 2..n joined it, client c on connection c
RECURSIVE Lobby(_)
Lobby(n) ==
  IF n = 1 THEN createRoom(EmptyWorld, 1, 1, FALSE, 1)
  ELSE joinRoom(Quiet(Lobby(n - 1)), n, 1, n)

\* k connections, the first n of them made, connection c by client c
OpenSockets(n, k) ==
  [s \in 1..k |-> IF s <= n THEN [st |-> "open", ident |-> s] ELSE [st |-> "idle", ident |-> 0]]

\* the server with the waiting room of n clients, and k - n connections to come
InitLobby(n, k) ==
  LET w == Lobby(n)
  IN /\ rooms = w.rooms /\ live = w.live /\ pending = w.pending /\ out = w.out
     /\ publicRooms = w.publicRooms
     /\ socks = OpenSockets(n, k)
     /\ nextRoom = 2
     /\ req = [NoReq EXCEPT !.op = "joinRoom", !.sock = n, !.room = 1, !.clientId = n]

\* the server after the host of the room of n clients started the game
InitStarted(n, settings, shuffles) ==
  \E g \in settings, o \in shuffles :
    \E w \in startGame(Quiet(Lobby(n)), 1, g, o) :
      /\ rooms = w.rooms /\ live = w.live /\ pending = w.pending /\ out = w.out
     /\ publicRooms = w.publicRooms
      /\ socks = OpenSockets(n, n)
      /\ nextRoom = 2
      /\ req = NoReq

----------------------------------------------------------------------------
(* The game: clients connect, one makes a room, the others join it, they   *)
(* play, leave and drop.  A client has one connection at a time and sends  *)
(* its identity with every request; a game is started while the room has   *)
(* seen fewer than MaxRestartTurn turns; the room is left while the chat   *)
(* history is shorter than MaxChat.                                        *)

MaxRestartTurn == 1
DrawTimes == {2}
RoundCounts == {1}
SettingsInputs == [drawTime : DrawTimes, rounds : RoundCounts, maxPlayers : {0}]
Shuffles == {<<W1, W2, W3>>}
SelectInputs == {W1}

InNoRoom(s) == findUserRoom(World, s) = 0

\* the client c has no connection and the clients before it have connected
MayConnect(c) ==
  /\ \A s \in DOMAIN socks : ~(socks[s].st = "open" /\ socks[s].ident = c)
  /\ \A b \in 1..(c - 1) : \E s \in DOMAIN socks : socks[s].ident = b

MayStart(s) ==
  LET r == findUserRoom(World, s) IN r # 0 /\ rooms[r].turnNo < MaxRestartTurn

MayChat(s) ==
  LET r == findUserRoom(World, s) IN r # 0 /\ Len(rooms[r].chatHistory) < MaxChat

\* the request or callback was not a no-op
Effective == rooms' # rooms \/ live' # live \/ pending' # pending

Next ==
  \/ \E c \in ClientIds : MayConnect(c) /\ Connect(c)
  \/ \E s \in DOMAIN socks : InNoRoom(s) /\ CreateRoom(s, socks[s].ident, FALSE)
  \/ \E s \in DOMAIN socks, r \in DOMAIN rooms : InNoRoom(s) /\ JoinRoom(s, r, socks[s].ident)
  \/ \E s \in DOMAIN socks, g \in SettingsInputs, o \in Shuffles :
        MayStart(s) /\ StartGame(s, g, o) /\ Effective
  \/ \E s \in DOMAIN socks, x \in SelectInputs : SelectWord(s, x) /\ Effective
  \/ \E s \in DOMAIN socks : MayChat(s) /\ LeaveRoom(s)
  \/ \E s \in DOMAIN socks : Disconnect(s)
  \/ \E r \in RoomIds, h \in Handles : Tick(r, h)
  \/ \E t \in BagToSet(pending), o \in Shuffles : Fire(t, o)

Spec == Init /\ [][Next]_vars

----------------------------------------------------------------------------
(* A game of two rounds whose players stay: nobody leaves or drops, and    *)
(* the game is started once, from the waiting room.                        *)

RotationRounds == {2}
RotationSettings == [drawTime : DrawTimes, rounds : RotationRounds, maxPlayers : {0}]

InWaitingRoom(s) ==
  LET r == findUserRoom(World, s) IN r # 0 /\ rooms[r].status = "waiting"

NextRotation ==
  \/ \E c \in ClientIds : MayConnect(c) /\ Connect(c)
  \/ \E s \in DOMAIN socks : InNoRoom(s) /\ CreateRoom(s, socks[s].ident, FALSE)
  \/ \E s \in DOMAIN socks, r \in DOMAIN rooms :
        /\ InNoRoom(s) /\ rooms[r].status = "waiting"
        /\ JoinRoom(s, r, socks[s].ident)
  \/ \E s \in DOMAIN socks, g \in RotationSettings, o \in Shuffles :
        InWaitingRoom(s) /\ StartGame(s, g, o) /\ Effective
  \/ \E s \in DOMAIN socks, x \in SelectInputs : SelectWord(s, x) /\ Effective
  \/ \E r \in RoomIds, h \in Handles : Tick(r, h)
  \/ \E t \in BagToSet(pending), o \in Shuffles : Fire(t, o)

SpecRotation == InitWith(MaxClients) /\ [][NextRotation]_vars

----------------------------------------------------------------------------
(* The countdown: a drawing time long enough for both hints, guesses that  *)
(* end the turn early, and a host who starts the game again while it runs. *)

TimerDrawTimes == {24}
TimerSettings == [drawTime : TimerDrawTimes, rounds : RoundCounts, maxPlayers : {0}]

MayRestart(s) ==
  LET r == findUserRoom(World, s) IN r # 0 /\ rooms[r].turnNo <= MaxRestartTurn

InPlay(s) ==
  LET r == findUserRoom(World, s) IN r # 0 /\ rooms[r].status = "playing"

NextTimer ==
  \/ \E c \in ClientIds : MayConnect(c) /\ Connect(c)
  \/ \E s \in DOMAIN socks : InNoRoom(s) /\ CreateRoom(s, socks[s].ident, FALSE)
  \/ \E s \in DOMAIN socks, r \in DOMAIN rooms : InNoRoom(s) /\ JoinRoom(s, r, socks[s].ident)
  \/ \E s \in DOMAIN socks, g \in TimerSettings, o \in Shuffles :
        MayRestart(s) /\ StartGame(s, g, o) /\ Effective
  \/ \E s \in DOMAIN socks, x \in SelectInputs : SelectWord(s, x) /\ Effective
  \/ \E s \in DOMAIN socks, x \in SelectInputs :
        MayChat(s) /\ InPlay(s) /\ ChatMessage(s, x, FALSE)
  \/ \E r \in RoomIds, h \in Handles : Tick(r, h)
  \/ \E t \in BagToSet(pending), o \in Shuffles : Fire(t, o)

SpecTimer == InitWith(MaxClients) /\ [][NextTimer]_vars

----------------------------------------------------------------------------
(* The chat of the first turn of a game, up to the pause after it: the     *)
(* clients of a full waiting room play and talk during the drawing, each   *)
(* message either the secret word with a trailing space or chatter; they   *)
(* drop, and a client who dropped comes back on a new connection.          *)

ChatClients == 3
MaxChatSent == 2
RawW1 == <<"d", "o", "g", " ">>
ChatInputs == {RawW1, Chatter}

MayTalk(s) ==
  LET r == findUserRoom(World, s)
  IN r # 0 /\ rooms[r].status = "playing" /\ Len(rooms[r].chatHistory) < MaxChatSent

ReplaySockets == 4

NextReplay ==
  \/ \E s \in DOMAIN socks, g \in SettingsInputs, o \in Shuffles :
        MayStart(s) /\ StartGame(s, g, o) /\ Effective
  \/ \E s \in DOMAIN socks, x \in SelectInputs : SelectWord(s, x) /\ Effective
  \/ \E s \in DOMAIN socks, x \in ChatInputs, c \in BOOLEAN :
        MayTalk(s) /\ ChatMessage(s, x, c)
  \/ \E s \in DOMAIN socks : Disconnect(s)
  \/ \E c \in 1..ChatClients : MayConnect(c) /\ Connect(c)
  \/ \E s \in DOMAIN socks, r \in DOMAIN rooms : InNoRoom(s) /\ JoinRoom(s, r, socks[s].ident)
  \/ \E r \in RoomIds, h \in Handles : Tick(r, h)

SpecReplay == InitLobby(ChatClients, ReplaySockets) /\ [][NextReplay]_vars

----------------------------------------------------------------------------
(* Masking and hints in a game of two: the drawer sends any word over an   *)
(* alphabet of a letter, a digit and the space, and the countdown runs     *)
(* long enough for both hints.                                             *)

Players2 == 2
MaskAlphabet == {"a", "1", Space}
MaskWords == StringsOver(MaskAlphabet, 1, MaxMaskLen)

\* the player of connection s is the drawer choosing a word
Choosing(s) ==
  LET r == findUserRoom(World, s)
  IN /\ r # 0 /\ rooms[r].status = "selecting"
     /\ ~rooms[r].currentDrawer.null /\ rooms[r].currentDrawer.id = s

NextMask ==
  \/ \E s \in DOMAIN socks : Choosing(s) /\ \E x \in MaskWords : SelectWord(s, x)
  \/ \E r \in RoomIds, h \in Handles : Tick(r, h)

SpecMask == InitStarted(Players2, TimerSettings, Shuffles) /\ [][NextMask]_vars

----------------------------------------------------------------------------
(* Guesses in a game of two: the drawer sends any word, and the other      *)
(* player one text, over a two-letter alphabet, or one of the examples.    *)

GuessAlphabet == {"a", "b"}
Apple == <<"a", "p", "p", "l", "e">>
Aple == <<"a", "p", "l", "e">>
RawApple == <<Space, "A", "p", "p", "l", "e", Space>>
Strawberry == <<"s", "t", "r", "a", "w", "b", "e", "r", "r", "y">>
Strawbery == <<"s", "t", "r", "a", "w", "b", "e", "r", "y">>
\* (a word that starts with "b" is one that starts with "a" with the two
\* letters exchanged)
GuessWords ==
  {w \in StringsOver(GuessAlphabet, MinGuessLen, MaxGuessLen) : w[1] = "a"}
    \cup {Apple, Strawberry}
Guesses ==
  StringsOver(GuessAlphabet, MinGuessLen, MaxGuessLen) \cup {Apple, Aple, RawApple, Strawbery}

FirstGuess(s) ==
  LET r == findUserRoom(World, s)
  IN /\ r # 0 /\ rooms[r].status = "playing" /\ rooms[r].chatHistory = <<>>
     /\ ~rooms[r].players[FindById(rooms[r], s)].isDrawing

NextGuess ==
  \/ \E s \in DOMAIN socks : Choosing(s) /\ \E x \in GuessWords : SelectWord(s, x)
  \/ \E s \in DOMAIN socks, x \in Guesses : FirstGuess(s) /\ ChatMessage(s, x, FALSE)

SpecGuess == InitStarted(Players2, SettingsInputs, Shuffles) /\ [][NextGuess]_vars

----------------------------------------------------------------------------
(* The requests of clients who may not make them: two clients, in the room *)
(* or out of it, send startGame, selectWord with a word that was offered   *)
(* or one that was not, strokes and clearCanvas, whoever draws and         *)
(* whatever the status; the drawing history is kept below MaxStrokes.      *)

MaxStrokes == 2
Bogus == <<"b", "a", "d">>
GuardWords == {W1, Bogus}
Strokes == {"line", "fill", "clear", "bad"}

MayDraw(s) ==
  LET r == findUserRoom(World, s) IN r # 0 => Len(rooms[r].drawingHistory) < MaxStrokes

NextGuards ==
  \/ \E c \in ClientIds : MayConnect(c) /\ Connect(c)
  \/ \E s \in DOMAIN socks : InNoRoom(s) /\ CreateRoom(s, socks[s].ident, FALSE)
  \/ \E s \in DOMAIN socks, r \in DOMAIN rooms : InNoRoom(s) /\ JoinRoom(s, r, socks[s].ident)
  \/ \E s \in DOMAIN socks, g \in SettingsInputs, o \in Shuffles :
        (InNoRoom(s) \/ MayRestart(s)) /\ StartGame(s, g, o)
  \/ \E s \in DOMAIN socks, x \in GuardWords : SelectWord(s, x)
  \/ \E s \in DOMAIN socks, d \in Strokes : MayDraw(s) /\ Drawing(s, d)
  \/ \E s \in DOMAIN socks : ClearCanvas(s)
  \/ \E r \in RoomIds, h \in Handles : Tick(r, h)
  \/ \E t \in BagToSet(pending), o \in Shuffles : Fire(t, o)

SpecGuards == InitWith(MaxClients) /\ [][NextGuards]_vars

----------------------------------------------------------------------------
(* The clock: the host sends the drawing time the game is to have, a       *)
(* number the handler takes as it comes: 2, or -1.                         *)

ClockDrawTimes == {2, -1}
ClockSettings == [drawTime : ClockDrawTimes, rounds : RoundCounts, maxPlayers : {0}]

NextClock ==
  \/ \E c \in ClientIds : MayConnect(c) /\ Connect(c)
  \/ \E s \in DOMAIN socks : InNoRoom(s) /\ CreateRoom(s, socks[s].ident, FALSE)
  \/ \E s \in DOMAIN socks, r \in DOMAIN rooms : InNoRoom(s) /\ JoinRoom(s, r, socks[s].ident)
  \/ \E s \in DOMAIN socks, g \in ClockSettings, o \in Shuffles :
        MayStart(s) /\ StartGame(s, g, o) /\ Effective
  \/ \E s \in DOMAIN socks, x \in SelectInputs : SelectWord(s, x) /\ Effective
  \/ \E r \in RoomIds, h \in Handles : Tick(r, h)
  \/ \E t \in BagToSet(pending), o \in Shuffles : Fire(t, o)

SpecClock == InitWith(MaxClients) /\ [][NextClock]_vars

----------------------------------------------------------------------------
(* Scores in a game of two with a drawing time of 20 seconds: the drawer   *)
(* picks a word, the countdown runs, and the other player sends the word   *)
(* or chatter at any second of it.                                         *)

ScoreDrawTimes == {20}
ScoreSettings == [drawTime : ScoreDrawTimes, rounds : RoundCounts, maxPlayers : {0}]

NextScore ==
  \/ \E s \in DOMAIN socks, x \in SelectInputs : SelectWord(s, x) /\ Effective
  \/ \E s \in DOMAIN socks, x \in ChatInputs : MayTalk(s) /\ ChatMessage(s, x, FALSE)
  \/ \E r \in RoomIds, h \in Handles : Tick(r, h)
  \/ \E t \in BagToSet(pending), o \in Shuffles : Fire(t, o)

SpecScore == InitStarted(Players2, ScoreSettings, Shuffles) /\ [][NextScore]_vars

----------------------------------------------------------------------------
(* A long chat in a game of two: the host opens it with "dog" during the   *)
(* selection, and while that message is the oldest of the history the      *)
(* players talk.  Up to MaxVaried entries, and from ChatLimit - 1 entries  *)
(* on, anybody sends the word or chatter, with the close-guess flag or     *)
(* without it, and anybody leaves or drops; in between the host sends      *)
(* chatter and nothing else happens.                                       *)

MaxVaried == 2

\* the opening message is still the oldest entry of the history
OpeningKept(room) ==
  /\ room.chatHistory # <<>>
  /\ room.chatHistory[1].message = W1 /\ room.chatHistory[1].type = "chat"

\* any input goes
Varied(room) ==
  Len(room.chatHistory) <= MaxVaried \/ Len(room.chatHistory) >= ChatLimit - 1

MayWrite(s, x, c) ==
  LET r == findUserRoom(World, s)
      room == rooms[r]
  IN /\ r # 0
     /\ IF room.chatHistory = <<>> THEN x = W1 /\ ~c /\ s = room.hostId
        ELSE /\ OpeningKept(room) /\ x # W1
             /\ Varied(room) \/ (x = Chatter /\ ~c /\ s = room.hostId)

MayGo(s) ==
  LET r == findUserRoom(World, s)
  IN r # 0 /\ OpeningKept(rooms[r]) /\ Varied(rooms[r])

\* the rooms take any input
AnyVaried == \A r \in DOMAIN rooms : OpeningKept(rooms[r]) /\ Varied(rooms[r])

NextHistory ==
  \/ \E s \in DOMAIN socks, x \in SelectInputs : AnyVaried /\ SelectWord(s, x) /\ Effective
  \/ \E s \in DOMAIN socks, x \in ChatInputs \cup {W1}, c \in BOOLEAN :
        MayWrite(s, x, c) /\ ChatMessage(s, x, c)
  \/ \E s \in DOMAIN socks : MayGo(s) /\ LeaveRoom(s)
  \/ \E s \in DOMAIN socks : MayGo(s) /\ Disconnect(s)
  \/ \E t \in BagToSet(pending), o \in Shuffles : AnyVaried /\ Fire(t, o)

SpecHistory == InitStarted(Players2, SettingsInputs, Shuffles) /\ [][NextHistory]_vars

----------------------------------------------------------------------------
(* A game of two with the default three rounds whose players drop: nobody  *)
(* comes back, the countdowns run and the callbacks fire.                  *)

GraceRounds == {0}
GraceSettings == [drawTime : DrawTimes, rounds : GraceRounds, maxPlayers : {0}]

NextGrace ==
  \/ \E s \in DOMAIN socks, x \in SelectInputs : SelectWord(s, x) /\ Effective
  \/ \E s \in DOMAIN socks : Disconnect(s)
  \/ \E r \in RoomIds, h \in Handles : Tick(r, h)
  \/ \E t \in BagToSet(pending), o \in Shuffles : Fire(t, o)

SpecGrace == InitStarted(Players2, GraceSettings, Shuffles) /\ [][NextGrace]_vars

----------------------------------------------------------------------------
(* The door: connections create the room, join it with any clientId, the   *)
(* absent one (0) included, also when they are in the room already, leave  *)
(* and drop.  No game is started.                                          *)

JoinIds == 0..MaxClients

NextJoin ==
  \/ \E c \in ClientIds : MayConnect(c) /\ Connect(c)
  \/ \E s \in DOMAIN socks : CreateRoom(s, socks[s].ident, FALSE)
  \/ \E s \in DOMAIN socks, r \in DOMAIN rooms, c \in JoinIds : JoinRoom(s, r, c)
  \/ \E s \in DOMAIN socks : MayChat(s) /\ LeaveRoom(s)
  \/ \E s \in DOMAIN socks : Disconnect(s)
  \/ \E t \in BagToSet(pending), o \in Shuffles : Fire(t, o)

SpecJoin == Init /\ [][NextJoin]_vars

----------------------------------------------------------------------------
(* The listing and the sweep: two clients make a public or a private room, *)
(* play a game of one round, leave and drop, and the sweep runs at any     *)
(* time, with any room idle for 30 minutes.                                *)

SockIds == 1..MaxSockets

NextSweep ==
  \/ \E c \in ClientIds : MayConnect(c) /\ Connect(c)
  \/ \E s \in DOMAIN socks, p \in BOOLEAN : InNoRoom(s) /\ CreateRoom(s, socks[s].ident, p)
  \/ \E s \in DOMAIN socks, r \in DOMAIN rooms : InNoRoom(s) /\ JoinRoom(s, r, socks[s].ident)
  \/ \E s \in DOMAIN socks, g \in SettingsInputs, o \in Shuffles :
        MayStart(s) /\ StartGame(s, g, o) /\ Effective
  \/ \E s \in DOMAIN socks, x \in SelectInputs : SelectWord(s, x) /\ Effective
  \/ \E s \in DOMAIN socks : MayChat(s) /\ LeaveRoom(s)
  \/ \E s \in DOMAIN socks : Disconnect(s)
  \/ \E r \in RoomIds, h \in Handles : Tick(r, h)
  \/ \E t \in BagToSet(pending), o \in Shuffles : Fire(t, o)
  \/ \E old \in SUBSET SockIds, idle \in SUBSET RoomIds : Sweep(old, idle)

SpecSweep == InitWith(Players2) /\ [][NextSweep]_vars

----------------------------------------------------------------------------
(* The claims *)

DrawingPlayers(room) == {i \in Idx(room) : room.players[i].isDrawing}

NonSpace(word) == {i \in 1..Len(word) : word[i] # Space}

Normalized(s) == trim(toLowerCase(s))

\* m has the length of word, its spaces where word has them, and the
\* placeholder at every other position outside revealed
IsMaskOf(m, word, revealed) ==
  /\ Len(m) = Len(word)
  /\ \A i \in 1..Len(word) :
       /\ m[i] = Space <=> word[i] = Space
       /\ (word[i] # Space /\ i \notin revealed) => m[i] = "_"

Without(s, i) == SubSeq(s, 1, i - 1) \o SubSeq(s, i + 1, Len(s))

\* b comes from a by one substitution, one deletion or one insertion
OneEdit(a, b) ==
  \/ Len(a) = Len(b) /\ Cardinality({i \in 1..Len(a) : a[i] # b[i]}) = 1
  \/ Len(a) = Len(b) + 1 /\ \E i \in 1..Len(a) : Without(a, i) = b
  \/ Len(b) = Len(a) + 1 /\ \E i \in 1..Len(b) : Without(b, i) = a

\* C1: in every room, while the status is selecting or playing exactly one
\* player has isDrawing and it is the current drawer; in every other status
\* no player has isDrawing.
C1_ExactlyOneDrawer ==
  \A r \in DOMAIN rooms :
    LET room == rooms[r]
        D == DrawingPlayers(room)
    IN IF room.status \in {"selecting", "playing"}
       THEN /\ Cardinality(D) = 1
            /\ ~room.currentDrawer.null /\ ~room.currentDrawer.gone
            /\ \A i \in D : room.players[i].id = room.currentDrawer.id
       ELSE D = {}

\* C2: with the same players throughout, nobody draws twice in a round, and
\* the round counter moves only after every player has drawn in the round.
C2_RotationFairness ==
  [][\A r \in DOMAIN rooms \cap DOMAIN rooms' :
       LET before == rooms[r].roundDrawers
           after == rooms'[r].roundDrawers
       IN /\ \A i, j \in 1..Len(after) : i # j => after[i] # after[j]
          /\ (rooms[r].status # "waiting" /\ rooms'[r].round # rooms[r].round)
               => {before[i] : i \in 1..Len(before)}
                    = {rooms[r].players[i].clientId : i \in Idx(rooms[r])}]_vars

\* C3: a room has at most one running countdown, the one room.timer holds, a
\* room that is gone has none, and a turn reveals each hint at most once.
C3_OneCountdown ==
  \A r \in RoomIds :
    LET H == {h \in Handles : <<r, h>> \in live}
    IN /\ Cardinality(H) <= 1
       /\ H # {} => r \in DOMAIN rooms /\ rooms[r].timer \in H
       /\ r \in DOMAIN rooms =>
            \A i, j \in 1..Len(rooms[r].hintLog) :
              i # j => rooms[r].hintLog[i].hint # rooms[r].hintLog[j].hint

\* startGameTimer cancelled a running countdown and the one it started runs
C3_Witness ==
  \E r \in DOMAIN rooms : rooms[r].timerReplaced /\ <<r, rooms[r].timer>> \in live

\* C4: a message of this turn from a player who had guessed correctly reaches,
\* as a chatMessage event or in the chat history of a rejoinedRoom event, only
\* players who have guessed correctly this turn or are the drawer.
C4_ChatVisibility ==
  \A e \in out :
    e.ev \in {"chatMessage", "rejoinedRoom"} =>
      LET r == findUserRoom(World, e.to)
      IN r # 0 =>
           LET room == rooms[r]
               me == FindById(room, e.to)
           IN \A k \in 1..Len(e.chat) :
                (/\ e.chat[k].fromCorrectGuesser
                 /\ e.chat[k].turn = room.turnNo
                 /\ room.status = "playing" /\ ~room.currentDrawer.null)
                  => \/ room.players[me].hasGuessedCorrectly
                     \/ room.currentDrawer.id = e.to

\* C5: while the room is playing no chatMessage event whose text,
\* lowercased and trimmed, is the secret word reaches a player who is neither
\* the drawer nor has guessed correctly, whoever sent it.
C5_NoLeak ==
  \A e \in out :
    e.ev = "chatMessage" =>
      LET r == findUserRoom(World, e.to)
      IN r # 0 =>
           LET room == rooms[r]
               me == FindById(room, e.to)
           IN (/\ room.status = "playing"
               /\ Normalized(e.chat[1].message) = Normalized(room.word))
                => \/ room.players[me].hasGuessedCorrectly
                   \/ (~room.currentDrawer.null /\ room.currentDrawer.id = e.to)

\* C6: the masked word a player who is not the drawer gets at the selection
\* and with each hint has the word's length, spaces exactly at the word's
\* spaces and the placeholder at every other position not revealed; the mask
\* of the selection is the hint mask with nothing revealed.
C6_Masking ==
  \A r \in DOMAIN rooms :
    LET room == rooms[r]
    IN room.status = "playing" =>
         \A e \in out :
           (/\ e.ev \in {"roundStart", "wordHint"}
            /\ ~room.currentDrawer.null /\ e.to # room.currentDrawer.id)
             => /\ IsMaskOf(e.word, room.word, room.hintsRevealed.positions)
                /\ e.ev = "roundStart" => e.word = generateMaskedWordWithHints(room.word, {})

\* C7, as claimed: hint 1 reveals max(1, ceil(k/4)) of the k non-space
\* positions and hint 2 max(1, ceil(k/2)) further ones.
C7_HintCounts ==
  \A r \in DOMAIN rooms :
    LET room == rooms[r]
        k == Cardinality(NonSpace(room.word))
        log == room.hintLog
    IN /\ Len(log) >= 1 => Cardinality(log[1].revealed) = Max2(1, CeilDiv(k, 4))
       /\ Len(log) >= 2 => Cardinality(log[2].revealed) = Max2(1, CeilDiv(k, 2))

\* C7, amended: hint 1 reveals max(1, ceil(k/4)) of the k non-space positions,
\* hint 2 reveals max(1, ceil(m/2)) of the m = k - |hint 1| positions still
\* hidden (none when m = 0); the revealed positions are non-space positions of
\* the word, at most k, and the two hints reveal disjoint sets.
C7_HintBounds ==
  \A r \in DOMAIN rooms :
    LET room == rooms[r]
        k == Cardinality(NonSpace(room.word))
        log == room.hintLog
        first == IF Len(log) >= 1 THEN log[1].revealed ELSE {}
        second == IF Len(log) >= 2 THEN log[2].revealed ELSE {}
        m == k - Cardinality(first)
    IN /\ Len(log) <= 2
       /\ Len(log) >= 1 => /\ log[1].hint = 1 /\ k > 0
                           /\ Cardinality(first) = Max2(1, CeilDiv(k, 4))
       /\ Len(log) >= 2 => /\ log[2].hint = 2 /\ m > 0
                           /\ Cardinality(second) = Max2(1, CeilDiv(m, 2))
       /\ (room.hintsRevealed.set /\ room.hintsRevealed.count = 1 /\ m = 0) => Len(log) = 1
       /\ first \cap second = {}
       /\ room.hintsRevealed.set => room.hintsRevealed.positions = first \cup second
       /\ first \cup second \subseteq NonSpace(room.word)
       /\ Cardinality(first \cup second) <= k

\* both hints were revealed for a word of three non-space characters
C7_Witness ==
  \E r \in DOMAIN rooms :
    /\ Len(rooms[r].hintLog) = 2
    /\ Cardinality(NonSpace(rooms[r].word)) = 3
    /\ Cardinality(rooms[r].hintLog[2].revealed) = 1

\* the text of the last chatMessage was taken for a correct guess
JudgedCorrect == \E e \in out : e.ev = "wordGuessed" /\ e.to = req.sock

\* the text of the last chatMessage went out as an ordinary message
Forwarded ==
  \E e \in out : /\ e.ev = "chatMessage" /\ e.chat[1].type = "chat"
                 /\ e.chat[1].message = req.text

\* the last step was the chatMessage of a player who does not draw, in a
\* playing room
GuessMade ==
  /\ req.op = "chatMessage"
  /\ LET r == findUserRoom(World, req.sock)
     IN /\ r # 0 /\ rooms[r].status = "playing"
        /\ ~rooms[r].players[FindById(rooms[r], req.sock)].isDrawing

GuessWord == rooms[findUserRoom(World, req.sock)].word

\* C8, as claimed: the guess g is correct iff g = w, or g is longer than 6
\* and one edit away from w; otherwise it is forwarded as ordinary chat.
C8_GuessEvaluation ==
  GuessMade =>
    LET g == Normalized(req.text)
        w == Normalized(GuessWord)
    IN /\ JudgedCorrect <=> (g = w \/ (Len(g) > 6 /\ OneEdit(g, w)))
       /\ ~JudgedCorrect => Forwarded

\* C8, amended: the guess g is correct iff g = w, or g and w are both longer
\* than 6 and one edit apart; an incorrect one is forwarded as ordinary chat
\* and a correct one is not; (apple, apple) and (strawbery, strawberry) are
\* correct and (aple, apple) is not.
C8_GuessEvaluationBothLong ==
  GuessMade =>
    LET g == Normalized(req.text)
        w == Normalized(GuessWord)
    IN /\ JudgedCorrect <=> (g = w \/ (Len(g) > 6 /\ Len(w) > 6 /\ OneEdit(g, w)))
       /\ JudgedCorrect <=> ~Forwarded
       /\ (g = Apple /\ w = Apple) => JudgedCorrect
       /\ (g = Aple /\ w = Apple) => ~JudgedCorrect
       /\ (g = Strawbery /\ w = Strawberry) => JudgedCorrect

\* a guess one edit away from the word was taken for correct
C8_Witness ==
  GuessMade /\ JudgedCorrect /\ Normalized(req.text) # Normalized(GuessWord)

\* C9: a joinRoom with the identity of a disconnected player who does not
\* draw, in a room that is selecting or playing, rebinds that player's record
\* to the new connection and leaves the rest of it and the list as they were;
\* the removal after the grace period takes no connected player away; and a
\* joinRoom with an identity no record of the room has adds a record with
\* score 0.
C9_ReconnectContinuity ==
  [][\A r \in DOMAIN rooms :
       LET room == rooms[r]
       IN /\ (/\ req'.op = "joinRoom" /\ req'.room = r
              /\ room.status \in {"selecting", "playing"})
               => \A i \in Idx(room) :
                    (/\ room.players[i].ident = req'.clientId
                     /\ ~room.players[i].isConnected
                     /\ ~room.players[i].isDrawing)
                      => /\ r \in DOMAIN rooms'
                         /\ Len(rooms'[r].players) = Len(room.players)
                         /\ rooms'[r].players[i] =
                              [room.players[i] EXCEPT !.id = req'.sock, !.isConnected = TRUE]
          /\ (req'.op = "grace" /\ req'.room = r)
               => \A i \in Idx(room) :
                    room.players[i].isConnected
                      => /\ r \in DOMAIN rooms'
                         /\ \E j \in Idx(rooms'[r]) :
                              /\ rooms'[r].players[j].id = room.players[i].id
                              /\ rooms'[r].players[j].score = room.players[i].score
                              /\ rooms'[r].players[j].hasGuessedCorrectly =
                                   room.players[i].hasGuessedCorrectly
          /\ (/\ req'.op = "joinRoom" /\ req'.room = r
              /\ \A i \in Idx(room) : room.players[i].ident # req'.clientId
              /\ Len(room.players) < room.maxPlayers)
               => /\ r \in DOMAIN rooms'
                  /\ Len(rooms'[r].players) = Len(room.players) + 1
                  /\ rooms'[r].players[Len(room.players) + 1].id = req'.sock
                  /\ rooms'[r].players[Len(room.players) + 1].score = 0]_vars

\* C10: when the client whose player is the drawer of the running turn, its
\* connection closed, sends joinRoom, its player draws on the new connection
\* (isDrawing, currentDrawer) and the rejoinedRoom event carries the secret
\* word; what the server answers to any other returning player carries no
\* word other than the masked one.
C10_DrawerRestore ==
  [][\A r \in DOMAIN rooms :
       (/\ req'.op = "joinRoom" /\ req'.room = r
        /\ rooms[r].status \in {"selecting", "playing"})
         => LET room == rooms[r]
                c == req'.clientId
                s == req'.sock
                wasDrawer == /\ ~room.currentDrawer.null
                             /\ room.currentDrawer.ident = c
                             /\ ~IsOpen(room.currentDrawer.id)
                returning == \E i \in Idx(room) :
                               room.players[i].ident = c /\ ~room.players[i].isConnected
            IN /\ wasDrawer =>
                    /\ r \in DOMAIN rooms'
                    /\ \E j \in Idx(rooms'[r]) :
                         rooms'[r].players[j].id = s /\ rooms'[r].players[j].isDrawing
                    /\ ~rooms'[r].currentDrawer.null /\ ~rooms'[r].currentDrawer.gone
                    /\ rooms'[r].currentDrawer.id = s
                    /\ \E e \in out' : /\ e.ev = "rejoinedRoom" /\ e.to = s
                                       /\ e.word = rooms'[r].word
               /\ (~wasDrawer /\ returning) =>
                    \A e \in out' :
                      (e.to = s /\ e.word # <<>>)
                        => IsMaskOf(e.word, rooms'[r].word, rooms'[r].hintsRevealed.positions)]_vars

\* the player of connection s is the host of its room, which has two players
\* or more
HostOfTwo(s) ==
  LET r == findUserRoom(World, s)
  IN /\ r # 0 /\ Len(rooms[r].players) >= 2
     /\ rooms[r].players[FindById(rooms[r], s)].isHost

\* C11: a startGame of the host of a room of two players or more starts the
\* game; any other startGame sends one error event, to the caller, and
\* changes no room, no countdown and no delayed call.
C11_StartGameGuard ==
  [][\A s \in DOMAIN socks, g \in SettingsInputs, o \in Shuffles :
       StartGame(s, g, o) =>
         IF HostOfTwo(s)
         THEN LET r == findUserRoom(World, s)
              IN /\ rooms'[r].status = "selecting" /\ rooms'[r].round = 1
                 /\ \A e \in out' : e.ev # "errorMessage"
         ELSE /\ rooms' = rooms /\ live' = live /\ pending' = pending
              /\ out' = {Ev("errorMessage", s, <<>>, <<>>)}]_vars

\* a player who is not the host was refused while the game ran
C11_Witness ==
  /\ req.op = "none"
  /\ \E e \in out :
       /\ e.ev = "errorMessage"
       /\ LET r == findUserRoom(World, e.to)
          IN /\ r # 0 /\ Len(rooms[r].players) >= 2
             /\ ~rooms[r].players[FindById(rooms[r], e.to)].isHost
             /\ rooms[r].status = "playing"

\* the words of a sequence
Range(f) == {f[i] : i \in DOMAIN f}

\* C12: a selectWord of the current drawer, in a selecting room, with one of
\* the words offered makes that word the secret word; any other selectWord
\* changes nothing; so the secret word of a playing room is one of the words
\* offered for the turn.
C12_SelectWordGuard ==
  [][/\ \A s \in DOMAIN socks, x \in GuardWords :
          SelectWord(s, x) =>
            LET r == findUserRoom(World, s)
                ok == /\ r # 0 /\ rooms[r].status = "selecting"
                      /\ ~rooms[r].currentDrawer.null /\ rooms[r].currentDrawer.id = s
                      /\ x \in Range(rooms[r].wordOptions)
            IN IF ok THEN rooms'[r].status = "playing" /\ rooms'[r].word = x
               ELSE rooms' = rooms /\ live' = live /\ pending' = pending
     /\ \A r \in DOMAIN rooms' :
          rooms'[r].status = "playing" => rooms'[r].word \in Range(rooms'[r].wordOptions)]_vars

\* the player of connection s is the current drawer of a playing room
DrawerPlaying(s) ==
  LET r == findUserRoom(World, s)
  IN /\ r # 0 /\ rooms[r].status = "playing"
     /\ ~rooms[r].currentDrawer.null /\ rooms[r].currentDrawer.id = s

\* C13: a stroke or a clearCanvas of anybody but the current drawer of a
\* playing room changes no drawing history and is shown to nobody.
C13_StrokeGuard ==
  [][\A s \in DOMAIN socks :
       (~DrawerPlaying(s) /\ (ClearCanvas(s) \/ \E d \in Strokes : Drawing(s, d)))
         => rooms' = rooms /\ out' = {}]_vars

\* C14: timeLeft is never negative and no timeUpdate event carries a negative
\* value; the tick that brings timeLeft to 0 makes the selecting room play
\* and ends the turn of the playing room; and no countdown runs on a
\* timeLeft that is not positive.
C14_TimeLeftNonNegative ==
  [][\A r \in DOMAIN rooms' :
       /\ rooms'[r].timeLeft >= 0
       /\ \A e \in out' : e.ev = "timeUpdate" => e.timeLeft >= 0
       /\ (\E h \in Handles : <<r, h>> \in live') => rooms'[r].timeLeft > 0
       /\ (\E h \in Handles : Tick(r, h) /\ rooms[r].timeLeft = 1) =>
            \/ rooms[r].status = "selecting" /\ rooms'[r].status = "playing"
            \/ /\ rooms[r].status = "playing" /\ rooms'[r].currentDrawer.null
               /\ \E t \in BagToSet(pending') : t.kind = "advance" /\ t.room = r]_vars

\* C15: in every room 0 <= round <= totalRounds + 1.
C15_RoundBound ==
  \A r \in DOMAIN rooms : 0 <= rooms[r].round /\ rooms[r].round <= rooms[r].totalRounds + 1

\* C16: a room with a player has exactly one player with isHost, and hostId is
\* the id of that player.
C16_OneHost ==
  \A r \in DOMAIN rooms :
    LET room == rooms[r]
        H == {i \in Idx(room) : room.players[i].isHost}
    IN room.players # <<>> =>
         Cardinality(H) = 1 /\ \A i \in H : room.players[i].id = room.hostId

\* ranked holds the players of the list, each once, a higher score before a
\* lower one and, of two equal scores, the one earlier in the list first
IsRanking(ranked, players) ==
  /\ Len(ranked) = Len(players)
  /\ \E f \in [1..Len(players) -> 1..Len(players)] :
       /\ \A i \in DOMAIN ranked : ranked[i] = players[f[i]]
       /\ \A i, j \in DOMAIN ranked :
            i < j => \/ ranked[i].score > ranked[j].score
                     \/ ranked[i].score = ranked[j].score /\ f[i] < f[j]

\* C17: when endGame has run (a gameEnded event was sent) the room's status is
\* gameEnd, no countdown of the room is running, and the event carries the
\* room's players by descending score, equal scores in the order of the
\* room's player list.
C17_EndGame ==
  \A e \in out :
    e.ev = "gameEnded" =>
      LET r == findUserRoom(World, e.to)
      IN /\ r # 0
         /\ rooms[r].status = "gameEnd"
         /\ \A h \in Handles : <<r, h>> \notin live
         /\ IsRanking(e.players, rooms[r].players)

\* a game ended with the player who joined last ahead of the host
C17_Witness ==
  \E e \in out :
    /\ e.ev = "gameEnded"
    /\ Len(e.players) = 2
    /\ e.players[1].score > e.players[2].score
    /\ e.players # rooms[findUserRoom(World, e.to)].players

\* C18: a correct guess (the guesser was sent wordGuessed) adds exactly
\* ceil(timeLeft / drawTime * 100) + 50 to the guesser's score and sets
\* hasGuessedCorrectly; no other step and no other player's score changes, so
\* scores are non-negative and never decrease.
C18_ScoreAward ==
  [][\A r \in DOMAIN rooms : \A i \in Idx(rooms[r]) :
       (r \in DOMAIN rooms' /\ i \in Idx(rooms'[r])
          /\ rooms'[r].players[i].id = rooms[r].players[i].id) =>
         LET before == rooms[r].players[i]
             after == rooms'[r].players[i]
             guessed == /\ req'.op = "chatMessage" /\ req'.sock = before.id
                        /\ \E e \in out' : e.ev = "wordGuessed" /\ e.to = before.id
         IN /\ before.score >= 0
            /\ after.score >= before.score
            /\ IF guessed
               THEN /\ ~before.isDrawing /\ ~before.hasGuessedCorrectly
                    /\ after.hasGuessedCorrectly
                    /\ after.score =
                         before.score + CeilDiv(rooms[r].timeLeft * 100, rooms[r].drawTime) + 50
               ELSE after.score = before.score]_vars

\* the step is endRound for room r: the countdown reached 0 during the
\* drawing, or the callback of a guess that was the last one fired
EndRoundStep(r) ==
  \/ \E h \in Handles : Tick(r, h) /\ rooms[r].status = "playing" /\ rooms[r].timeLeft = 1
  \/ \E t \in BagToSet(pending), o \in Shuffles :
        t.kind = "endRound" /\ t.room = r /\ Fire(t, o)

\* C19: when a turn ends, the drawer of that turn gains exactly 25 points if
\* a player other than the drawer guessed correctly during the turn, and
\* nothing if nobody did.
C19_DrawerBonus ==
  [][\A r \in DOMAIN rooms :
       (EndRoundStep(r) /\ ~rooms[r].currentDrawer.null /\ r \in DOMAIN rooms') =>
         LET room == rooms[r]
             d == FindById(room, room.currentDrawer.id)
             someoneGuessed ==
               \E i \in Idx(room) : i # d /\ room.players[i].hasGuessedCorrectly
         IN d # 0 =>
              rooms'[r].players[d].score =
                room.players[d].score + (IF someoneGuessed THEN 25 ELSE 0)]_vars

\* C20: after a correct guess that leaves every connected player other than
\* the drawer with hasGuessedCorrectly (disconnected players not counted),
\* the room's countdown is stopped and endRound is scheduled, once.
C20_EarlyTurnEnd ==
  (req.op = "chatMessage" /\ \E e \in out : e.ev = "wordGuessed" /\ e.to = req.sock) =>
    LET r == findUserRoom(World, req.sock)
        room == rooms[r]
        allConnectedGuessed ==
          \A i \in Idx(room) :
            (room.players[i].isConnected /\ room.players[i].id # room.currentDrawer.id)
              => room.players[i].hasGuessedCorrectly
    IN (r # 0 /\ ~room.currentDrawer.null /\ allConnectedGuessed) =>
         /\ \A h \in Handles : <<r, h>> \notin live
         /\ \E t \in BagToSet(pending) :
              /\ t.kind = "endRound" /\ t.room = r /\ CopiesIn(t, pending) = 1
              /\ \A u \in BagToSet(pending) : (u.kind = "endRound" /\ u.room = r) => u = t

\* C21: right after a startGame of the host of a room of two or more, the
\* round is 1, every score is 0, and nothing is left of an earlier game: the
\* turn counter and the last drawer are as in a new room, and the drawer just
\* picked is the only player with hasDrawnThisRound and with isDrawing.
C21_StartGameResets ==
  [][\A s \in DOMAIN socks, g \in TimerSettings, o \in Shuffles :
       (StartGame(s, g, o) /\ HostOfTwo(s)) =>
         LET room == rooms'[findUserRoom(World, s)]
         IN /\ room.round = 1
            /\ room.currentTurn = 0
            /\ room.lastDrawer = NoRef
            /\ \A i \in Idx(room) :
                 /\ room.players[i].score = 0
                 /\ room.players[i].hasDrawnThisRound <=> room.players[i].id = room.currentDrawer.id
                 /\ room.players[i].isDrawing <=> room.players[i].id = room.currentDrawer.id]_vars

\* C22: a step that takes a room from selecting to playing (a selectWord of
\* the drawer, or the countdown of the selection running out) leaves the
\* word set to the chosen one, the hints at count 0 with no position
\* revealed, the drawing history empty, timeLeft at drawTime + 10, and one
\* countdown running.
C22_WordSelection ==
  [][\A r \in DOMAIN rooms :
       (r \in DOMAIN rooms' /\ rooms[r].status = "selecting" /\ rooms'[r].status = "playing") =>
         /\ rooms'[r].word # <<>>
         /\ \A s \in DOMAIN socks, x \in GuardWords : SelectWord(s, x) => rooms'[r].word = x
         /\ (\E h \in Handles : Tick(r, h)) => rooms'[r].word = rooms[r].wordOptions[1]
         /\ rooms'[r].hintsRevealed = FreshHints
         /\ rooms'[r].drawingHistory = <<>>
         /\ Cardinality({h \in Handles : <<r, h>> \in live'}) = 1
         /\ rooms'[r].timeLeft = rooms'[r].drawTime + 10]_vars

\* the last k entries of a history
LastEntries(h, k) == SubSeq(h, Len(h) - k + 1, Len(h))

\* C23: a chat history never has more than 100 entries; a step appends its
\* new entries, at most three, to the history, dropping the oldest entries
\* beyond 100, and every chatMessage event of the step carries one of the
\* entries appended.
C23_ChatHistory ==
  [][\A r \in DOMAIN rooms :
       /\ Len(rooms[r].chatHistory) <= ChatLimit
       /\ r \in DOMAIN rooms' =>
            LET old == rooms[r].chatHistory
                new == rooms'[r].chatHistory
            IN \E k \in 0..3 :
                 /\ Len(new) = (IF Len(old) + k > ChatLimit THEN ChatLimit ELSE Len(old) + k)
                 /\ SubSeq(new, 1, Len(new) - k) = LastEntries(old, Len(new) - k)
                 /\ \A e \in out' :
                      e.ev = "chatMessage" =>
                        \E i \in 1..k : LastEntries(new, k)[i] = e.chat[1]]_vars

\* a full history lost its oldest entry, the opening message, to a new one
C23_Witness ==
  \E r \in DOMAIN rooms :
    /\ Len(rooms[r].chatHistory) = ChatLimit
    /\ ~OpeningKept(rooms[r])
    /\ \E e \in out : e.ev = "chatMessage" /\ e.chat[1] = rooms[r].chatHistory[ChatLimit]

\* C24: while a room's status is gameEnd, a step other than a startGame
\* leaves its status, its round, its current drawer and the score of every
\* player who stays as they are, and no countdown of the room runs.
C24_GameEndTerminal ==
  [][\A r \in DOMAIN rooms :
       (/\ rooms[r].status = "gameEnd" /\ r \in DOMAIN rooms'
        /\ ~\E s \in DOMAIN socks, g \in SettingsInputs, o \in Shuffles : StartGame(s, g, o)) =>
         /\ rooms'[r].status = "gameEnd"
         /\ rooms'[r].round = rooms[r].round
         /\ rooms'[r].currentDrawer.null = rooms[r].currentDrawer.null
         /\ rooms'[r].currentDrawer.ident = rooms[r].currentDrawer.ident
         /\ \A h \in Handles : <<r, h>> \notin live /\ <<r, h>> \notin live'
         /\ \A i \in Idx(rooms[r]), j \in Idx(rooms'[r]) :
              rooms'[r].players[j].ident = rooms[r].players[i].ident =>
                rooms'[r].players[j].score = rooms[r].players[i].score]_vars

\* the callback t is late: its room is gone, or the game has ended, or it is
\* the endRound that a guess scheduled and the room is selecting a word, which
\* it does only in a turn later than that of the guess
Stale(t) ==
  \/ t.room \notin DOMAIN rooms
  \/ rooms[t.room].status = "gameEnd"
  \/ t.kind = "endRound" /\ rooms[t.room].status = "selecting"

\* C25: a delayed callback (the advance after a turn, the endRound after the
\* last guess, the startRound after the drawer left) that fires late changes
\* no room and no countdown and sends nothing.
C25_StaleCallbacks ==
  [][\A t \in BagToSet(pending), o \in Shuffles :
       (Fire(t, o) /\ t.kind # "grace" /\ Stale(t)) =>
         rooms' = rooms /\ live' = live /\ out' = {}]_vars

\* the number of startRound callbacks waiting for room r
StartRoundsPending(P, r) ==
  LET t == [kind |-> "startRound", room |-> r, sock |-> 0, allDrawn |-> FALSE]
  IN IF t \in BagToSet(P) THEN CopiesIn(t, P) ELSE 0

\* the connection s is that of the current drawer of a room that is
\* selecting or playing
ActiveDrawer(s) ==
  LET r == findUserRoom(World, s)
  IN /\ r # 0 /\ rooms[r].status \in {"selecting", "playing"}
     /\ ~rooms[r].currentDrawer.null /\ rooms[r].currentDrawer.id = s

\* C26: when the current drawer disconnects or leaves during selecting or
\* playing and the room stays, its countdown is stopped and one startRound,
\* no more, is scheduled for it.
C26_DrawerLeft ==
  [][\A s \in DOMAIN socks :
       LET r == findUserRoom(World, s)
       IN (ActiveDrawer(s) /\ (Disconnect(s) \/ LeaveRoom(s)) /\ r \in DOMAIN rooms') =>
            /\ \A h \in Handles : <<r, h>> \notin live'
            /\ StartRoundsPending(pending', r) = StartRoundsPending(pending, r) + 1]_vars

\* C27: after a callback ran startRound the game has ended, or the room is
\* selecting with a connected current drawer and a running countdown; it is
\* not left selecting or playing without a drawer and a countdown when no
\* player can draw.
C27_NoEligibleDrawer ==
  [][\A t \in BagToSet(pending), o \in Shuffles :
       (/\ Fire(t, o) /\ t.kind \in {"startRound", "advance"}
        /\ t.room \in DOMAIN rooms /\ t.room \in DOMAIN rooms') =>
         LET room == rooms'[t.room]
         IN \/ room.status = "gameEnd"
            \/ /\ room.status = "selecting"
               /\ ~room.currentDrawer.null
               /\ \E i \in Idx(room) : /\ room.players[i].id = room.currentDrawer.id
                                         /\ room.players[i].isConnected
               /\ \E h \in Handles : <<t.room, h>> \in live']_vars

\* C28 (the part about the rounds): in a game whose players all stay, started
\* once, the status is gameEnd only after every player has had a turn in
\* each of the totalRounds rounds.
C28_AllRoundsPlayed ==
  \A r \in DOMAIN rooms :
    rooms[r].status = "gameEnd" =>
      rooms[r].turnNo >= Len(rooms[r].players) * rooms[r].totalRounds

\* the number of advance callbacks (endRound's 5 s timeout) waiting for room r
AdvancesPending(P, r) ==
  Cardinality({t \in BagToSet(P) : t.kind = "advance" /\ t.room = r /\ CopiesIn(t, P) = 1})

\* C29: endRound takes the room from playing to roundEnd, with no countdown
\* running and one advance scheduled; the room stays so until the advance
\* fires, and the advance ends the game if and only if the turn was the last
\* of the last round.
C29_RoundEnd ==
  [][\A r \in DOMAIN rooms :
       /\ (EndRoundStep(r) /\ rooms[r].status = "playing" /\ r \in DOMAIN rooms') =>
            /\ rooms'[r].status = "roundEnd"
            /\ \A h \in Handles : <<r, h>> \notin live'
            /\ AdvancesPending(pending', r) = 1
       /\ \A t \in BagToSet(pending), o \in Shuffles :
            (Fire(t, o) /\ t.kind = "advance" /\ t.room = r /\ r \in DOMAIN rooms') =>
              /\ rooms[r].status = "roundEnd"
              /\ rooms'[r].status = "gameEnd"
                   <=> (t.allDrawn /\ rooms[r].round >= rooms[r].totalRounds)]_vars

\* C30: a step that sets up a drawer leaves the room selecting with timeLeft
\* 15, three word options and a running countdown; the tick that takes the
\* countdown of a selection to 0 selects the first option and the room is
\* playing with that word; a selecting room never has timeLeft 0.
C30_SelectionTimeout ==
  [][\A r \in DOMAIN rooms \cap DOMAIN rooms' :
       /\ rooms'[r].status = "selecting" => rooms'[r].timeLeft > 0
       /\ rooms'[r].turnNo # rooms[r].turnNo =>
            /\ rooms'[r].status = "selecting"
            /\ rooms'[r].timeLeft = SelectTime
            /\ Len(rooms'[r].wordOptions) = 3
            /\ \E h \in Handles : <<r, h>> \in live'
       /\ (rooms[r].status = "selecting" /\ rooms[r].timeLeft = 1 /\ \E h \in Handles : Tick(r, h)) =>
            /\ rooms'[r].status = "playing"
            /\ rooms'[r].word = rooms[r].wordOptions[1]]_vars

\* a selection timed out: the tick that announced timeLeft 0 started the
\* drawing with the first option
C30_Witness ==
  \E r \in DOMAIN rooms :
    /\ rooms[r].status = "playing" /\ rooms[r].word = rooms[r].wordOptions[1]
    /\ \E e \in out : e.ev = "timeUpdate" /\ e.timeLeft = 0
    /\ \E e \in out : e.ev = "roundStart" /\ e.word = rooms[r].word

\* C31: a tick leaves the hint times of a turn as they are, and a drawing
\* whose time runs out, of a word with two letters or more, has revealed
\* hint 1 and then hint 2, each once.
C31_HintSchedule ==
  [][\A r \in DOMAIN rooms \cap DOMAIN rooms' :
       \A h \in Handles :
         Tick(r, h) =>
           /\ rooms'[r].status = rooms[r].status => rooms'[r].hintTimes = rooms[r].hintTimes
           /\ (/\ rooms[r].status = "playing" /\ rooms[r].timeLeft = 1
               /\ Cardinality(AvailablePositions(rooms[r].word, {})) >= 2) =>
                /\ Len(rooms'[r].hintLog) = 2
                /\ rooms'[r].hintLog[1].hint = 1 /\ rooms'[r].hintLog[2].hint = 2]_vars

\* C32: a step that sets the word (selecting to playing) leaves the hint
\* count 0 and no position revealed; any other step leaves the word as it
\* is, the count where it was or one higher, at most 2, and every position
\* that was revealed still revealed.
C32_HintMonotonic ==
  [][\A r \in DOMAIN rooms \cap DOMAIN rooms' :
       LET old == rooms[r].hintsRevealed
           new == rooms'[r].hintsRevealed
       IN IF rooms[r].status = "selecting" /\ rooms'[r].status = "playing"
          THEN new.count = 0 /\ new.positions = {}
          ELSE /\ rooms'[r].word = rooms[r].word
               /\ new.count \in {old.count, old.count + 1} /\ new.count <= 2
               /\ old.positions \subseteq new.positions
               /\ new.count = old.count => new.positions = old.positions]_vars

\* a second turn's word has had hint 1 and then hint 2 revealed
C32_Witness ==
  \E r \in DOMAIN rooms :
    /\ rooms[r].turnNo >= 2 /\ rooms[r].status = "playing"
    /\ rooms[r].hintsRevealed.count = 2 /\ Len(rooms[r].hintLog) = 2
    /\ Cardinality(rooms[r].hintsRevealed.positions) >= 2

\* C33: a step that sets up a drawer makes a connected member of the room
\* the drawer, and never the drawer of the turn before while another
\* connected player is in the room.
C33_DrawerSelection ==
  [][\A r \in DOMAIN rooms \cap DOMAIN rooms' :
       rooms'[r].turnNo = rooms[r].turnNo + 1 =>
         LET room == rooms'[r]
             connected == {i \in Idx(room) : room.players[i].isConnected}
         IN /\ ~room.currentDrawer.null
            /\ \E i \in connected : room.players[i].id = room.currentDrawer.id
            /\ (/\ ~rooms[r].lastDrawer.null
                /\ \E i \in connected : room.players[i].id # rooms[r].lastDrawer.id)
               => room.currentDrawer.id # rooms[r].lastDrawer.id]_vars

\* C34: the disconnect of a player who is not the drawer of a running turn
\* leaves the player in the list, marked not connected; a grace timer that
\* fires while its player is still not connected removes the player, leaves
\* the room with a host whose id is hostId when the player was host, and
\* deletes the room when it was the last player.
C34_GraceRemoval ==
  [][/\ \A s \in DOMAIN socks :
          LET r == findUserRoom(World, s) IN
          (r # 0 /\ Disconnect(s) /\ ~ActiveDrawer(s)) =>
             /\ r \in DOMAIN rooms'
             /\ \E i \in Idx(rooms'[r]) :
                   rooms'[r].players[i].id = s /\ ~rooms'[r].players[i].isConnected
     /\ \A t \in BagToSet(pending), o \in Shuffles :
          (t.kind = "grace" /\ t.room \in DOMAIN rooms /\ Fire(t, o)) =>
             LET room == rooms[t.room]
                 g == FindById(room, t.sock)
             IN (g # 0 /\ ~room.players[g].isConnected) =>
                  IF Len(room.players) = 1 THEN t.room \notin DOMAIN rooms'
                  ELSE /\ t.room \in DOMAIN rooms'
                       /\ FindById(rooms'[t.room], t.sock) = 0
                       /\ room.players[g].isHost =>
                            \E i \in Idx(rooms'[t.room]) :
                              /\ rooms'[t.room].players[i].isHost
                              /\ rooms'[t.room].players[i].id = rooms'[t.room].hostId]_vars

\* C35: a joinRoom changes a record of the room only when the record carries
\* the clientId of the request, the request has one, and the record is not
\* connected; with no such record and room left, it adds a record with the
\* sender's id and score 0.
C35_ReconnectMatching ==
  [][\A r \in DOMAIN rooms :
       (req'.op = "joinRoom" /\ req'.room = r) =>
         LET room == rooms[r]
             M == {i \in Idx(room) : /\ req'.clientId # 0
                                     /\ room.players[i].clientId = req'.clientId
                                     /\ ~room.players[i].isConnected}
         IN /\ r \in DOMAIN rooms'
            /\ Len(rooms'[r].players) >= Len(room.players)
            /\ \A i \in Idx(room) \ M : rooms'[r].players[i] = room.players[i]
            /\ (M = {} /\ Len(room.players) < room.maxPlayers) =>
                 /\ Len(rooms'[r].players) = Len(room.players) + 1
                 /\ rooms'[r].players[Len(room.players) + 1].id = req'.sock
                 /\ rooms'[r].players[Len(room.players) + 1].score = 0]_vars

\* C39: no two player records, of one room or of two, carry the same id.
C39_OneRecordPerSocket ==
  \A r, q \in DOMAIN rooms : \A i \in Idx(rooms[r]), j \in Idx(rooms[q]) :
    rooms[r].players[i].id = rooms[q].players[j].id => r = q /\ i = j

\* C36: the sweep deletes a room only when none of its players is left after
\* the purge, or when the room is idle and neither selecting nor playing; a
\* room that is selecting or playing and keeps a player stays; and no
\* countdown of a deleted room is left running.
C36_SweepSafety ==
  [][\A old \in SUBSET SockIds, idle \in SUBSET RoomIds :
       Sweep(old, idle) =>
         \A r \in DOMAIN rooms :
           LET room == rooms[r]
               kept == {i \in Idx(room) : room.players[i].isConnected \/ room.players[i].id \notin old}
               active == room.status \in {"selecting", "playing"}
           IN /\ r \notin DOMAIN rooms' =>
                   /\ kept = {} \/ (r \in idle /\ ~active)
                   /\ \A h \in Handles : <<r, h>> \notin live'
              /\ (kept # {} /\ active) => r \in DOMAIN rooms']_vars

\* the sweep found a room with players idle and deleted it
C36_Witness ==
  /\ req.op = "sweep" /\ req.room # 0 /\ req.room \notin DOMAIN rooms
  /\ \E s \in DOMAIN socks : socks[s].st = "open"

\* C40: the listing has an entry for each public room there is and for nothing
\* else, and the entry's player count and in-progress flag are the length of
\* the room's player list and status # waiting.
C40_PublicDirectory ==
  /\ DOMAIN publicRooms = {r \in DOMAIN rooms : rooms[r].isPublic}
  /\ \A r \in DOMAIN publicRooms :
       /\ publicRooms[r].players = Len(rooms[r].players)
       /\ publicRooms[r].inProgress = (rooms[r].status # "waiting")

\* a public room whose game is in progress has lost a player
C40_Witness ==
  \E r \in DOMAIN publicRooms :
    publicRooms[r].inProgress /\ publicRooms[r].players = 1 /\ rooms[r].turnNo >= 1

\* C37: a startGame sent while the sender's room is selecting or playing
\* leaves the room, its countdown and its callbacks as they were.
C37_StartGameIgnored ==
  [][\A s \in DOMAIN socks, g \in TimerSettings, o \in Shuffles :
       LET r == findUserRoom(World, s) IN
       (r # 0 /\ rooms[r].status \in {"selecting", "playing"} /\ StartGame(s, g, o)) =>
          rooms' = rooms /\ live' = live /\ pending' = pending]_vars

\* C38: a player's score goes up only in the step of the player's own chat
\* message, in a room that is playing with a current drawer, when the player
\* is not that drawer and has not guessed the word of the turn before.
C38_GuessPoints ==
  [][\A r \in DOMAIN rooms \cap DOMAIN rooms' : \A i \in Idx(rooms[r]) \cap Idx(rooms'[r]) :
       LET room == rooms[r]
           before == room.players[i]
           after == rooms'[r].players[i]
       IN (after.id = before.id /\ after.score > before.score) =>
            /\ req'.op = "chatMessage" /\ req'.sock = before.id
            /\ room.status = "playing"
            /\ ~room.currentDrawer.null
            /\ room.currentDrawer.id # before.id
            /\ ~before.hasGuessedCorrectly]_vars

====
